---- MODULE Spec2Model ----
(***************************************************************************)
(* A model of the chat client: the zustand store (src/store/index.ts),     *)
(* the provider adapters (src/services/api-service.ts), the conversation   *)
(* orchestrator ChatService (src/services/chat-service.ts) and the chat    *)
(* view's send handler (src/components/chat/chat-view.tsx).                *)
(*                                                                         *)
(* Text is a sequence of tokens (strings); the empty string is << >> and   *)
(* concatenation is \o.  The Chinese literals of the source are written as *)
(* ASCII tokens; each token's comment gives the literal it stands for.     *)
(***************************************************************************)
EXTENDS Integers, Sequences, FiniteSets, TLC

VARIABLES
  svc,            \* an adapter instance called directly: its call in progress
  conversations,  \* store.conversations
  currentConversationId, \* store.currentConversationId (0 for null)
  models,         \* store.models
  presets,        \* store.presets
  creating,       \* store.creating
  nextId,         \* the next fresh uuid (uuidv4 modelled as a counter)
  calls,          \* the ChatService calls: each async function's position and locals
  view,           \* the page shown and the mounted ChatView's component state
  selectedConversations \* store.selectedConversations

vars ==
  <<svc, conversations, currentConversationId, models, presets, creating, nextId, calls, view,
    selectedConversations>>

appVars ==
  <<conversations, currentConversationId, models, presets, creating, nextId, calls, view,
    selectedConversations>>

(***************************************************************************)
(* Bounds of the model.                                                    *)
(***************************************************************************)
MaxMsgs == 3
MaxChunks == 2
MaxCalls == 2

MaxConvs == 2

MaxIds == 4

MaxAppChunks == 1

(***************************************************************************)
(* Text.                                                                   *)
(***************************************************************************)
WS == " "

RECURSIVE TrimStart(_)
TrimStart(t) ==
  IF t # <<>> /\ Head(t) = WS THEN TrimStart(Tail(t)) ELSE t

RECURSIVE TrimEnd(_)
TrimEnd(t) ==
  IF t # <<>> /\ t[Len(t)] = WS THEN TrimEnd(SubSeq(t, 1, Len(t) - 1)) ELSE t

\* String.prototype.trim
Trim(t) == TrimEnd(TrimStart(t))

\* "请回答上述问题。"
FillerAnswer == <<"PLEASE_ANSWER_THE_ABOVE">>

\* "继续"
FillerContinue == <<"CONTINUE">>

\* "[系统指令] "
SystemInstructionTag == <<"[SYSTEM_INSTRUCTION] ">>

\* "错误: "
ErrPrefix == <<"ERROR: ">>

IsPrefix(p, t) == Len(p) <= Len(t) /\ SubSeq(t, 1, Len(p)) = p

Last(s) == s[Len(s)]

(***************************************************************************)
(* types/index.ts                                                          *)
(***************************************************************************)
ModelType == {"openai", "deepseek", "gemini", "claude"}

MessageRole == {"system", "user", "assistant"}

\* The role strings an ApiCallOptions message may carry (role: string).
RoleStrings == {"user", "User", "assistant", "system", "SYSTEM", "tool"}

\* String.prototype.toLowerCase on the role strings
toLowerCase(role) ==
  CASE role = "User" -> "user"
    [] role = "SYSTEM" -> "system"
    [] OTHER -> role

(***************************************************************************)
(* BaseApiService.normalizeRole                                            *)
(***************************************************************************)
normalizeRoleNoLower(role, supportedRoles) ==
  IF role \in supportedRoles THEN role ELSE "user"

normalizeRole(role, supportedRoles) ==
  LET normalizedRole == toLowerCase(role)
  IN IF normalizedRole \in supportedRoles THEN normalizedRole ELSE "user"

MapMessages(messages, supportedRoles) ==
  [i \in 1..Len(messages) |->
     [role |-> normalizeRole(messages[i].role, supportedRoles),
      content |-> messages[i].content]]

\* messages.filter(pred) for the three role tests of processGeminiMessages
FilterRole(messages, role) ==
  SelectSeq(messages, LAMBDA m : toLowerCase(m.role) = role)

FilterNotRole(messages, role) ==
  SelectSeq(messages, LAMBDA m : toLowerCase(m.role) # role)

\* contents.join("\n\n")
RECURSIVE Join(_)
Join(contents) ==
  IF contents = <<>> THEN <<>>
  ELSE IF Len(contents) = 1 THEN contents[1]
  ELSE contents[1] \o <<"\n\n">> \o Join(Tail(contents))

(***************************************************************************)
(* The trailing user turn of DeepSeekService and of processGeminiMessages. *)
(***************************************************************************)
EnsureTrailingUserNever(messages) ==
  messages

EnsureTrailingUser(messages) ==
  IF Len(messages) > 0 /\ messages[Len(messages)].role # "user"
  THEN Append(messages, [role |-> "user", content |-> FillerAnswer])
  ELSE messages

OpenAIMessages(messages) ==
  MapMessages(messages, {"user", "system", "assistant"})

DeepSeekNormalized(messages) ==
  MapMessages(messages, {"user", "system", "assistant"})

DeepSeekMessages(messages) ==
  EnsureTrailingUser(DeepSeekNormalized(messages))

ClaudeMessages(messages) ==
  MapMessages(messages, {"user", "assistant"})

(***************************************************************************)
(* GeminiService.processGeminiMessages                                     *)
(***************************************************************************)
GeminiSimpleFirst(messages) ==
  LET users == FilterRole(messages, "user")
      syss == FilterRole(messages, "system")
  IN IF users # <<>> THEN <<[role |-> "user", content |-> Head(users).content]>>
     ELSE IF syss # <<>> THEN <<[role |-> "user", content |-> Head(syss).content]>>
     ELSE IF Len(messages) > 0
       THEN <<[role |-> "user", content |-> Last(messages).content]>>
       ELSE <<>>

\* The simple request mode (messages.length <= 2).
GeminiSimple(messages) ==
  LET users == FilterRole(messages, "user")
      syss == FilterRole(messages, "system")
  IN IF users # <<>> THEN <<[role |-> "user", content |-> Last(users).content]>>
     ELSE IF syss # <<>> THEN <<[role |-> "user", content |-> Last(syss).content]>>
     ELSE IF Len(messages) > 0
       THEN <<[role |-> "user", content |-> Last(messages).content]>>
       ELSE <<>>

RECURSIVE GeminiAppendAll(_, _, _)
GeminiAppendAll(rest, result, currentRole) ==
  IF rest = <<>> THEN result
  ELSE LET msg == Head(rest)
           msgRole == IF toLowerCase(msg.role) = "assistant" THEN "model" ELSE "user"
       IN GeminiAppendAll(Tail(rest),
            Append(result, [role |-> msgRole, content |-> msg.content]), msgRole)

\* The forEach of the full conversation mode: result and currentRole threaded.
RECURSIVE GeminiAlternate(_, _, _)
GeminiAlternate(rest, result, currentRole) ==
  IF rest = <<>> THEN result
  ELSE LET msg == Head(rest)
           msgRole == IF toLowerCase(msg.role) = "assistant" THEN "model" ELSE "user"
           filled == IF Len(result) > 0 /\ currentRole = msgRole
                     THEN Append(result,
                            [role |-> IF msgRole = "user" THEN "model" ELSE "user",
                             content |-> FillerContinue])
                     ELSE result
       IN GeminiAlternate(Tail(rest),
            Append(filled, [role |-> msgRole, content |-> msg.content]), msgRole)

\* The full conversation mode up to, not including, the trailing user turn.
GeminiTurns(messages) ==
  LET syss == FilterRole(messages, "system")
      systemContents == Join([i \in 1..Len(syss) |-> syss[i].content])
      start == IF systemContents # <<>>
               THEN <<[role |-> "user", content |-> SystemInstructionTag \o systemContents]>>
               ELSE <<>>
      currentRole == IF systemContents # <<>> THEN "user" ELSE ""
  IN GeminiAlternate(FilterNotRole(messages, "system"), start, currentRole)

processGeminiMessages(messages) ==
  IF Len(messages) <= 2 THEN GeminiSimple(messages)
  ELSE EnsureTrailingUser(GeminiTurns(messages))

\* The messages an adapter puts in its request body.
OutgoingMessages(type, messages) ==
  CASE type = "openai" -> OpenAIMessages(messages)
    [] type = "deepseek" -> DeepSeekMessages(messages)
    [] type = "gemini" -> processGeminiMessages(messages)
    [] type = "claude" -> ClaudeMessages(messages)

(***************************************************************************)
(* The value caught by an adapter's catch block, as extractErrorMessage    *)
(* reads it: message ("" when absent), whether it is an object with a      *)
(* message property, whether it is an Error instance, response.status (0   *)
(* when there is no response or no status), response.data.error (absent, a *)
(* string, or an object whose message is dataErrorText, "" when it has     *)
(* none) and response.data.message ("" when absent).                       *)
(***************************************************************************)
ThrownError(message, status, dataError, dataErrorText, dataMessage) ==
  [hasMessage |-> TRUE, isError |-> TRUE, message |-> message, status |-> status,
   dataError |-> dataError, dataErrorText |-> dataErrorText, dataMessage |-> dataMessage]

\* new Error(message), and the TypeError of a property read on undefined
PlainError(message) == ThrownError(message, 0, "none", <<>>, <<>>)

TypeErrorUndefined == PlainError(<<"TypeError: cannot read properties of undefined">>)

\* " API密钥无效或已过期", " 模型不存在或API端点错误", " 请求频率限制，请稍后再试", "未知错误"
FriendlyText(status) ==
  CASE status = 401 -> <<" API_KEY_INVALID_OR_EXPIRED">>
    [] status = 404 -> <<" MODEL_OR_ENDPOINT_NOT_FOUND">>
    [] status = 429 -> <<" RATE_LIMITED_RETRY_LATER">>

UnknownError == <<"UNKNOWN_ERROR">>

HasFriendlyText(status) == status \in {401, 404, 429}

extractErrorMessageStatusFirst(error, defaultPrefix) ==
  IF HasFriendlyText(error.status)
    THEN defaultPrefix \o FriendlyText(error.status)
           \o (IF error.message # <<>> THEN <<" (">> \o error.message \o <<")">> ELSE <<>>)
  ELSE IF error.dataErrorText # <<>> THEN error.dataErrorText
  ELSE IF error.dataMessage # <<>> THEN error.dataMessage
  ELSE IF error.message # <<>> THEN error.message
  ELSE defaultPrefix \o <<" ">> \o UnknownError

(***************************************************************************)
(* BaseApiService.extractErrorMessage                                      *)
(***************************************************************************)
extractErrorMessage(error, defaultPrefix) ==
  IF error.hasMessage /\ error.dataError = "string" /\ error.dataErrorText # <<>>
    THEN error.dataErrorText
  ELSE IF error.hasMessage /\ error.dataError = "object" /\ error.dataErrorText # <<>>
    THEN error.dataErrorText
  ELSE IF error.hasMessage /\ error.dataMessage # <<>>
    THEN error.dataMessage
  ELSE IF error.hasMessage /\ error.message # <<>>
    THEN IF HasFriendlyText(error.status)
         THEN defaultPrefix \o FriendlyText(error.status) \o <<" (">> \o error.message \o <<")">>
         ELSE error.message
  ELSE IF HasFriendlyText(error.status)
    THEN defaultPrefix \o FriendlyText(error.status)
  ELSE IF error.isError
    THEN defaultPrefix \o <<" ">> \o (IF error.message # <<>> THEN error.message ELSE UnknownError)
  ELSE defaultPrefix \o <<" ">> \o UnknownError

\* the defaultPrefix each adapter passes
ProviderPrefix(type) ==
  CASE type = "openai" -> <<"OpenAI">>
    [] type = "deepseek" -> <<"DeepSeek">>
    [] type = "gemini" -> <<"Gemini">>
    [] type = "claude" -> <<"Claude">>

(***************************************************************************)
(* ApiResponse: content, isText (content is a string, not null/undefined), *)
(* hasError (the error key is set) and error.                              *)
(***************************************************************************)
Content(text) == [content |-> text, isText |-> TRUE, hasError |-> FALSE, error |-> <<>>]

NoContent == [content |-> <<>>, isText |-> FALSE, hasError |-> FALSE, error |-> <<>>]

Failure(error) == [content |-> <<>>, isText |-> TRUE, hasError |-> TRUE, error |-> error]

\* "未指定OpenAI模型名称", "OpenAI返回了空响应", "Gemini内容被过滤: ", "Gemini返回了无效响应",
\* "Claude返回了无效响应"
OpenAINoModel == <<"OPENAI_MODEL_NAME_NOT_SET">>

OpenAIEmptyResponse == <<"OPENAI_RETURNED_EMPTY_RESPONSE">>

GeminiBlocked == <<"GEMINI_CONTENT_FILTERED: ", "SAFETY">>

GeminiInvalid == <<"GEMINI_RETURNED_INVALID_RESPONSE">>

ClaudeInvalid == <<"CLAUDE_RETURNED_INVALID_RESPONSE">>

(***************************************************************************)
(* What axios.post settles with.  kind "ok": a 2xx response whose body     *)
(* holds, in the vendor's slot for the reply text (choices[0].message      *)
(* .content, candidates[0].content.parts[0].text, content[0].text):        *)
(* shape "absent" (no list), "empty" (empty list), "null" (no text in the  *)
(* first item), "text" (the string text), "blocked" (Gemini's              *)
(* promptFeedback.blockReason and no candidates).  kind "err": axios       *)
(* rejects with error.                                                     *)
(***************************************************************************)
OkOutcome(shape, text) == [kind |-> "ok", shape |-> shape, text |-> text, error |-> PlainError(<<>>)]

ErrOutcome(error) == [kind |-> "err", shape |-> "absent", text |-> <<>>, error |-> error]

ReplyText == <<"reply">>

AxiosMessage == <<"Request failed">>

\* response.data of a failed request: no error key, a string error, an error object
\* without and with a message
ErrorPayloads ==
  {<<"none", <<>>>>, <<"string", <<"vendor error">>>>, <<"object", <<>>>>,
   <<"object", <<"vendor error">>>>}

AxiosOutcomes ==
  {OkOutcome(s, <<>>) : s \in {"absent", "empty", "null", "text", "blocked"}}
    \cup {OkOutcome("text", ReplyText)}
    \cup {ErrOutcome(PlainError(<<"Network Error">>))}
    \cup {ErrOutcome(ThrownError(AxiosMessage, st, p[1], p[2], dm)) :
            st \in {401, 404, 429, 500}, p \in ErrorPayloads, dm \in {<<>>, <<"vendor message">>}}
    \cup {ErrOutcome(ThrownError(<<>>, st, "none", <<>>, <<>>)) : st \in {0, 401}}
    \cup {ErrOutcome([PlainError(<<>>) EXCEPT !.hasMessage = FALSE, !.isError = FALSE])}

(***************************************************************************)
(* The four adapters' sendMessage, from the settled axios call to the      *)
(* ApiResponse returned.                                                   *)
(***************************************************************************)
OpenAIResult(o) ==
  IF o.kind = "err" THEN Failure(extractErrorMessage(o.error, ProviderPrefix("openai")))
  ELSE IF o.shape \in {"absent", "empty", "blocked"} THEN Failure(OpenAIEmptyResponse)
  ELSE IF o.shape = "null" THEN Content(<<>>)
  ELSE Content(o.text)

DeepSeekResult(o) ==
  IF o.kind = "err" THEN Failure(extractErrorMessage(o.error, ProviderPrefix("deepseek")))
  ELSE IF o.shape \in {"absent", "empty", "blocked"}
    THEN Failure(extractErrorMessage(TypeErrorUndefined, ProviderPrefix("deepseek")))
  ELSE IF o.shape = "null" THEN NoContent
  ELSE Content(o.text)

GeminiResult(o) ==
  IF o.kind = "err" THEN Failure(extractErrorMessage(o.error, ProviderPrefix("gemini")))
  ELSE IF o.shape = "blocked" THEN Failure(GeminiBlocked)
  ELSE IF o.shape # "text" \/ o.text = <<>> THEN Failure(GeminiInvalid)
  ELSE Content(o.text)

ClaudeResult(o) ==
  IF o.kind = "err" THEN Failure(extractErrorMessage(o.error, ProviderPrefix("claude")))
  ELSE IF o.shape # "text" \/ o.text = <<>> THEN Failure(ClaudeInvalid)
  ELSE Content(o.text)

AdapterResult(type, o) ==
  CASE type = "openai" -> OpenAIResult(o)
    [] type = "deepseek" -> DeepSeekResult(o)
    [] type = "gemini" -> GeminiResult(o)
    [] type = "claude" -> ClaudeResult(o)

\* OpenAIService.sendMessage returns before any request when config.model is "".
ReturnsBeforeRequest(type, modelName) == type = "openai" /\ modelName = <<>>

(***************************************************************************)
(* The adapters' sendMessageStream.  A call's state: full (fullContent),   *)
(* log (the onStream calls made so far, in order), nread (chunks read),    *)
(* th (whether the onStream handler passed in throws when called) and,     *)
(* once the promise has settled, settled and thrown (the rejection).       *)
(* History kept beside them: deltas (the non-empty text deltas extracted   *)
(* from the events so far, in order) and ended (reader.read() has returned *)
(* done).                                                                  *)
(***************************************************************************)
OnStreamCall(text, isComplete) == [text |-> text, isComplete |-> isComplete]

\* the exception of a throwing handler
HandlerError == PlainError(<<"TypeError: store.updateMessageContent is not a function">>)

OnStream(st, text, isComplete) ==
  [st EXCEPT !.log = Append(@, OnStreamCall(text, isComplete))]

\* catch (error) { onStream("", true); throw error; }
OuterCatch(st, error) ==
  LET s1 == OnStream(st, <<>>, TRUE)
  IN [s1 EXCEPT !.pc = "settled", !.settled = "rejected",
                !.thrown = IF st.th THEN HandlerError ELSE error]

\* onStream("", true); throw new Error(...), inside the try block
CompleteThenThrow(st, error) ==
  LET s1 == OnStream(st, <<>>, TRUE)
  IN OuterCatch(s1, IF st.th THEN HandlerError ELSE error)

(***************************************************************************)
(* One line of a chunk after split("\n"): k = "delta" (an event whose JSON *)
(* carries the text delta t, possibly ""), "stop" (Claude's message_stop;  *)
(* for the others a JSON event without a delta), "done" ("data: [DONE]"),  *)
(* "bad" (a line that is no event or whose JSON does not parse), "block"   *)
(* (Gemini's promptFeedback.blockReason).                                  *)
(***************************************************************************)
Delta(t) == [k |-> "delta", t |-> t]

Line(k) == [k |-> k, t |-> <<>>]

\* fullContent += content
Accumulate(st, content) ==
  [st EXCEPT !.full = @ \o content, !.deltas = Append(@, content)]

SseLineIncremental(st, line) ==
  IF line.k = "delta" /\ line.t # <<>>
  THEN OnStream(Accumulate(st, line.t), line.t, FALSE)
  ELSE st

\* OpenAI, DeepSeek: the body of for (const line of lines), its try/catch included
SseLine(st, line) ==
  IF line.k = "delta" /\ line.t # <<>>
  THEN OnStream(Accumulate(st, line.t), st.full \o line.t, FALSE)
  ELSE st

\* Claude: the same, and message_stop
ClaudeLine(st, line) ==
  IF line.k = "delta" /\ line.t # <<>>
  THEN OnStream(Accumulate(st, line.t), st.full \o line.t, FALSE)
  ELSE IF line.k = "stop" THEN OnStream(st, st.full, TRUE)
  ELSE st

\* "Gemini内容被过滤: ..."
GeminiBlockedError == PlainError(GeminiBlocked)

\* Gemini: for (const jsonData of jsonLines) inside the chunk's try/catch: an
\* exception of the handler ends the chunk, the filter error ends the call.
RECURSIVE GeminiLines(_, _)
GeminiLines(st, lines) ==
  IF lines = <<>> THEN st
  ELSE LET line == Head(lines)
       IN IF line.k = "delta" /\ line.t # <<>>
          THEN LET s1 == OnStream(Accumulate(st, line.t), st.full \o line.t, FALSE)
               IN IF st.th THEN s1 ELSE GeminiLines(s1, Tail(lines))
          ELSE IF line.k = "block" THEN OuterCatch(st, GeminiBlockedError)
          ELSE GeminiLines(st, Tail(lines))

RECURSIVE SseLines(_, _, _)
SseLines(type, st, lines) ==
  IF lines = <<>> THEN st
  ELSE SseLines(type,
         IF type = "claude" THEN ClaudeLine(st, Head(lines)) ELSE SseLine(st, Head(lines)),
         Tail(lines))

\* reader.read() returned a chunk
ReadChunk(type, st, lines) ==
  LET s1 == [st EXCEPT !.nread = @ + 1]
  IN IF type = "gemini" THEN GeminiLines(s1, lines) ELSE SseLines(type, s1, lines)

\* reader.read() returned done
ReadDone(type, st) ==
  LET s1 == OnStream([st EXCEPT !.ended = TRUE], st.full, TRUE)
  IN IF st.th THEN OuterCatch(s1, HandlerError)
     ELSE [s1 EXCEPT !.pc = "settled", !.settled = "resolved"]

\* "...API错误: ...", "...返回了空响应流", "未指定OpenAI模型名称"
HttpError(type) == PlainError(ProviderPrefix(type) \o <<" API_ERROR: ", "HTTP error">>)

EmptyStreamError(type) == PlainError(ProviderPrefix(type) \o <<"_RETURNED_EMPTY_STREAM">>)

NetworkError == PlainError(<<"Failed to fetch">>)

\* What fetch settles with: it rejects, or resolves with a response that is not
\* ok, that is ok with no body, or that is ok with a body to read.
FetchOutcomes == {"reject", "notok", "nobody", "ok"}

FetchSettled(type, st, outcome) ==
  CASE outcome = "reject" -> OuterCatch(st, NetworkError)
    [] outcome = "notok" -> CompleteThenThrow(st, HttpError(type))
    [] outcome = "nobody" -> CompleteThenThrow(st, EmptyStreamError(type))
    [] outcome = "ok" -> [st EXCEPT !.pc = "reading"]

\* The call up to its first await: the request is built and fetch is called.
StreamStart(type, modelName, messages, st) ==
  IF ReturnsBeforeRequest(type, modelName)
  THEN CompleteThenThrow(st, PlainError(OpenAINoModel))
  ELSE [st EXCEPT !.pc = "fetching", !.reqs = @ + 1,
                  !.wire = OutgoingMessages(type, messages)]

\* The chunks reader.read() may return.
StreamChunks ==
  {<<Delta(<<"a">>)>>,
   <<Delta(<<"b">>), Line("stop"), Delta(<<"c">>)>>,
   <<Line("bad"), Delta(<<>>), Line("done")>>,
   <<Line("block")>>,
   <<Line("stop")>>}

NewStream(th) ==
  [pc |-> "idle", th |-> th, full |-> <<>>, log |-> <<>>, nread |-> 0, reqs |-> 0,
   wire |-> <<>>, settled |-> "pending", thrown |-> PlainError(<<>>),
   deltas |-> <<>>, ended |-> FALSE]

(***************************************************************************)
(* An adapter called directly (createApiService(config).sendMessage or     *)
(* .sendMessageStream): svc holds the configuration, the options and the   *)
(* call's state.                                                           *)
(***************************************************************************)
ContentTokens == <<"c1", "c2", "c3", "c4", "c5">>

MessageLists ==
  UNION {{[i \in 1..n |-> [role |-> r[i], content |-> <<ContentTokens[i]>>]] :
            r \in [1..n -> RoleStrings]} : n \in 0..MaxMsgs}

ModelNames == {<<>>, <<"model-1">>}

NoResult == [content |-> <<>>, isText |-> TRUE, hasError |-> FALSE, error |-> <<>>]

NewSvc(type, modelName, messages, method, th) ==
  [type |-> type, modelName |-> modelName, messages |-> messages, method |-> method,
   st |-> NewStream(th), result |-> NoResult, outcome |-> OkOutcome("absent", <<>>)]

(***************************************************************************)
(* The store (src/store/index.ts).  A conversation: id, modelId, presetId  *)
(* (0 for null), messages; a message: id, role, content.  title and the    *)
(* timestamps are left out: no code path reads them.                       *)
(***************************************************************************)
Message(id, role, content) == [id |-> id, role |-> role, content |-> content]

NoMessage == Message(0, "none", <<>>)

\* JavaScript's null or undefined where a text is expected
JsNull == <<"<null>">>

HasConversation(convs, id) == \E i \in 1..Len(convs) : convs[i].id = id

\* conversations.find((c) => c.id === id), when there is one
FindConversation(convs, id) == convs[CHOOSE i \in 1..Len(convs) : convs[i].id = id]

HasModel(ms, id) == \E i \in 1..Len(ms) : ms[i].id = id

FindModel(ms, id) == ms[CHOOSE i \in 1..Len(ms) : ms[i].id = id]

createConversation(convs, id, modelId, presetId) ==
  <<[id |-> id, modelId |-> modelId, presetId |-> presetId, messages |-> <<>>]>> \o convs

deleteConversation(convs, id) == SelectSeq(convs, LAMBDA c : c.id # id)

addMessageUpsert(convs, conversationId, id, role, content) ==
  IF \E i \in 1..Len(convs) : convs[i].id = conversationId
  THEN [i \in 1..Len(convs) |->
          IF convs[i].id = conversationId
          THEN [convs[i] EXCEPT !.messages = Append(@, Message(id, role, content))]
          ELSE convs[i]]
  ELSE Append(convs, [id |-> conversationId, modelId |-> 1, presetId |-> 0,
                      messages |-> <<Message(id, role, content)>>])

addMessagePrepend(convs, conversationId, id, role, content) ==
  [i \in 1..Len(convs) |->
     IF convs[i].id = conversationId
     THEN [convs[i] EXCEPT !.messages = <<Message(id, role, content)>> \o @]
     ELSE convs[i]]

addMessage(convs, conversationId, id, role, content) ==
  [i \in 1..Len(convs) |->
     IF convs[i].id = conversationId
     THEN [convs[i] EXCEPT !.messages = Append(@, Message(id, role, content))]
     ELSE convs[i]]

\* The store has no updateMessageContent (AppState declares none and the object
\* passed to create() defines none), so store.updateMessageContent(...) is a call of
\* undefined: handleStreamResponse throws a TypeError after it has called
\* onStreamUpdate.
handleStreamResponseThrows == TRUE

(***************************************************************************)
(* The state the handlers read and write, passed as one record w: convs,   *)
(* cur (currentConversationId), nid (the next uuid), creating, view.       *)
(***************************************************************************)
World ==
  [convs |-> conversations, cur |-> currentConversationId, nid |-> nextId,
   creating |-> creating, view |-> view]

\* store.addMessage(conversationId, role, content): uuidv4() and set(...)
AddMessage(w, conversationId, role, content) ==
  [w EXCEPT !.convs = addMessage(@, conversationId, w.nid, role, content),
            !.nid = @ + 1]

ApiMessagesLatest(messages) ==
  IF messages = <<>> THEN <<>>
  ELSE <<[role |-> Last(messages).role, content |-> Last(messages).content]>>

\* const apiMessages = conversation.messages.map(({role, content}) => ...)
ApiMessages(messages) ==
  [i \in 1..Len(messages) |-> [role |-> messages[i].role, content |-> messages[i].content]]

ApiKeyMissingEmptyOnly(model) == model.apiKey = <<>>

\* !model.apiKey || model.apiKey.trim() === ""
ApiKeyMissing(model) == Trim(model.apiKey) = <<>>

\* "模型API密钥未配置或为空"
KeyMissing == <<"MODEL_API_KEY_NOT_CONFIGURED_OR_EMPTY">>

\* "模型API密钥未配置或为空，请先在设置中配置有效的API密钥"
KeyMissingLong == <<"MODEL_API_KEY_NOT_CONFIGURED_OR_EMPTY, CONFIGURE_A_VALID_KEY_IN_SETTINGS">>

\* "初始化对话失败: ", "找不到对话", "找不到模型配置"
InitFailedPrefix == <<"CONVERSATION_INIT_FAILED: ">>

ConversationNotFound == <<"CONVERSATION_NOT_FOUND">>

ModelNotFound == <<"MODEL_CONFIG_NOT_FOUND">>

(***************************************************************************)
(* A ChatService call: op ("initializeWithPreset", "sendMessage",          *)
(* "sendMessageStream"), pc (where the async function stands), conv (the   *)
(* conversation id), model, preset, step (the priming step in progress),   *)
(* st (the adapter call's state), result ("pending", "resolved",           *)
(* "rejected"), attached (the ChatView that started it is still mounted),  *)
(* fromSubmit (NewConversation.onSubmit awaits it).  History kept beside   *)
(* them: reqLog (every HTTP request issued: its step and the messages it   *)
(* carried), userLog (the ids of the user messages it appended), failures (for every provider call    *)
(* that failed, whether the conversation existed and its last message      *)
(* right after the failure was handled), uiLog (the onStreamUpdate         *)
(* calls), placeholder (the id of the empty assistant message a streaming  *)
(* send created, 0 when none) and updLog (for every content update         *)
(* reached, the id it was given and the conversation's last message then). *)
(***************************************************************************)
NoModel == [id |-> 0, type |-> "openai", apiKey |-> <<>>, modelName |-> <<>>]

NoPreset == [isNull |-> TRUE, id |-> 0, armoringPrompt |-> <<>>, systemPrompt |-> <<>>]

NewCall(op, conv, model, preset) ==
  [op |-> op, pc |-> "start", conv |-> conv, model |-> model, preset |-> preset,
   step |-> "none", st |-> NewStream(handleStreamResponseThrows), result |-> "pending",
   attached |-> FALSE, fromSubmit |-> FALSE,
   reqLog |-> <<>>, userLog |-> <<>>, failures |-> <<>>, uiLog |-> <<>>,
   placeholder |-> 0, updLog |-> <<>>]

\* the conversation's last message, as the history records it
LastOf(convs, id) ==
  IF HasConversation(convs, id) /\ FindConversation(convs, id).messages # <<>>
  THEN [exists |-> TRUE, last |-> Last(FindConversation(convs, id).messages)]
  ELSE [exists |-> HasConversation(convs, id), last |-> NoMessage]

NoteFailure(w, c) == [c EXCEPT !.failures = Append(@, LastOf(w.convs, c.conv))]

\* The reply or error text of an ApiResponse becomes the assistant message.
AssistantText(response) ==
  IF response.error # <<>> THEN ErrPrefix \o response.error
  ELSE IF response.isText THEN response.content
  ELSE JsNull

(***************************************************************************)
(* ChatService.initializeWithPreset and sendSingleMessageAndWait.  Each    *)
(* operator runs the code from one await to the next and returns the new   *)
(* world w and call c.                                                     *)
(***************************************************************************)
InitFinishKeepsFlag(w, c) ==
  [w |-> w, c |-> [c EXCEPT !.pc = "settled", !.result = "resolved"]]

\* finally { store.setCreating(false) } and the promise resolves
InitFinish(w, c) ==
  [w |-> [w EXCEPT !.creating = FALSE], c |-> [c EXCEPT !.pc = "settled", !.result = "resolved"]]

\* catch (error) of initializeWithPreset, then finally
InitCatch(w, c, message) ==
  InitFinish(AddMessage(w, c.conv, "assistant", InitFailedPrefix \o message), c)

\* sendSingleMessageAndWait from its call to its first await, after the step's user
\* message has been added
SendSingleStart(w, c, step) ==
  IF ~HasConversation(w.convs, c.conv) THEN InitCatch(w, c, ConversationNotFound)
  ELSE IF ApiKeyMissing(c.model)
    THEN LET w1 == AddMessage(w, c.conv, "assistant", ErrPrefix \o KeyMissing)
         IN [w |-> w1, c |-> [c EXCEPT !.pc = "returned", !.step = step]]
  ELSE IF ReturnsBeforeRequest(c.model.type, c.model.modelName)
    THEN LET w1 == AddMessage(w, c.conv, "assistant", ErrPrefix \o OpenAINoModel)
         IN [w |-> w1, c |-> NoteFailure(w1, [c EXCEPT !.pc = "delay", !.step = step])]
  ELSE [w |-> w,
        c |-> LET apiMessages == ApiMessages(FindConversation(w.convs, c.conv).messages)
              IN [c EXCEPT !.pc = "posted", !.step = step,
                           !.st.wire = OutgoingMessages(c.model.type, apiMessages),
                           !.reqLog = Append(@, [step |-> step, apiMessages |-> apiMessages])]]

\* store.addMessage(conversation.id, MessageRole.User, prompt) of a priming step
AddPrompt(w, c, prompt) ==
  [w |-> AddMessage(w, c.conv, "user", prompt),
   c |-> IF HasConversation(w.convs, c.conv) THEN [c EXCEPT !.userLog = Append(@, w.nid)] ELSE c]

SystemStepUntrimmed(w, c) ==
  IF c.preset.systemPrompt # <<>>
  THEN LET a == AddPrompt(w, c, c.preset.systemPrompt)
           r == SendSingleStart(a.w, a.c, "system")
       IN IF r.c.pc = "returned" THEN InitFinish(r.w, r.c) ELSE r
  ELSE InitFinish(w, c)

\* 2. the system prompt
SystemStep(w, c) ==
  IF Trim(c.preset.systemPrompt) # <<>>
  THEN LET a == AddPrompt(w, c, c.preset.systemPrompt)
           r == SendSingleStart(a.w, a.c, "system")
       IN IF r.c.pc = "returned" THEN InitFinish(r.w, r.c) ELSE r
  ELSE InitFinish(w, c)

ArmoringStepGoesOn(w, c) ==
  IF Trim(c.preset.armoringPrompt) # <<>>
  THEN LET a == AddPrompt(w, c, c.preset.armoringPrompt)
       IN IF ApiKeyMissing(c.model)
          THEN SystemStep(AddMessage(a.w, c.conv, "assistant", ErrPrefix \o KeyMissing), a.c)
          ELSE SendSingleStart(a.w, a.c, "armoring")
  ELSE SystemStep(w, c)

\* 1. the armoring prompt
ArmoringStep(w, c) ==
  IF Trim(c.preset.armoringPrompt) # <<>>
  THEN LET a == AddPrompt(w, c, c.preset.armoringPrompt)
       IN IF ApiKeyMissing(c.model)
          THEN InitFinish(AddMessage(a.w, c.conv, "assistant", ErrPrefix \o KeyMissing), a.c)
          ELSE SendSingleStart(a.w, a.c, "armoring")
  ELSE SystemStep(w, c)

\* initializeWithPreset from its call to its first await
initializeWithPreset(w, c) ==
  IF c.preset.isNull THEN [w |-> w, c |-> [c EXCEPT !.pc = "settled", !.result = "resolved"]]
  ELSE ArmoringStep([w EXCEPT !.creating = TRUE], c)

PrimingDelayOverStops(w, c) ==
  InitFinish(w, c)

\* the timer of sendSingleMessageAndWait fires, or the call returned through its
\* catch: initializeWithPreset goes on
PrimingDelayOver(w, c) ==
  IF c.step = "armoring" THEN SystemStep(w, c) ELSE InitFinish(w, c)

\* console.log(`...${response.content.length}`) when content is null or undefined
TypeErrorLength == <<"TypeError: cannot read properties of null (reading 'length')">>

PrimingSettledRetry(w, c, o) ==
  LET response == AdapterResult(c.model.type, o)
  IN IF response.hasError
     THEN [w |-> w, c |-> [c EXCEPT !.reqLog = Append(@, Last(c.reqLog))]]
     ELSE [w |-> AddMessage(w, c.conv, "assistant", response.content),
           c |-> [c EXCEPT !.pc = "delay"]]

\* apiService.sendMessage settles in sendSingleMessageAndWait: the reply or the error
\* is added, then await new Promise((resolve) => setTimeout(resolve, 100)); a reply
\* whose content is no string throws in the try block and the catch adds the error
PrimingSettled(w, c, o) ==
  LET response == AdapterResult(c.model.type, o)
  IN IF response.hasError
     THEN LET w1 == AddMessage(w, c.conv, "assistant", ErrPrefix \o response.error)
          IN [w |-> w1, c |-> NoteFailure(w1, [c EXCEPT !.pc = "delay"])]
     ELSE IF ~response.isText
       THEN PrimingDelayOver(AddMessage(w, c.conv, "assistant", ErrPrefix \o TypeErrorLength), c)
     ELSE [w |-> AddMessage(w, c.conv, "assistant", response.content),
           c |-> [c EXCEPT !.pc = "delay"]]

(***************************************************************************)
(* ChatService.sendMessage                                                 *)
(***************************************************************************)
RejectedWithMessage(w, c) ==
  [w |-> AddMessage(w, c.conv, "assistant", ErrPrefix \o ModelNotFound),
   c |-> [c EXCEPT !.pc = "settled", !.result = "rejected"]]

Rejected(w, c) == [w |-> w, c |-> [c EXCEPT !.pc = "settled", !.result = "rejected"]]

Resolved(w, c) == [w |-> w, c |-> [c EXCEPT !.pc = "settled", !.result = "resolved"]]

\* sendMessage from its call to axios.post
sendMessage(w, c, content) ==
  IF ~HasConversation(w.convs, c.conv) THEN Rejected(w, c)
  ELSE IF ~HasModel(models, FindConversation(w.convs, c.conv).modelId) THEN Rejected(w, c)
  ELSE LET model == FindModel(models, FindConversation(w.convs, c.conv).modelId)
           c1 == [c EXCEPT !.model = model]
       IN IF ApiKeyMissing(model)
          THEN Resolved(AddMessage(w, c.conv, "assistant", ErrPrefix \o KeyMissingLong), c1)
          ELSE LET w1 == AddMessage(w, c.conv, "user", content)
                   c2 == [c1 EXCEPT !.userLog = Append(@, w.nid)]
                   apiMessages == ApiMessages(FindConversation(w1.convs, c.conv).messages)
               IN IF ReturnsBeforeRequest(model.type, model.modelName)
                  THEN LET w2 == AddMessage(w1, c.conv, "assistant", ErrPrefix \o OpenAINoModel)
                       IN Resolved(w2, NoteFailure(w2, c2))
                  ELSE [w |-> w1,
                        c |-> [c2 EXCEPT !.pc = "posted",
                                 !.st.wire = OutgoingMessages(model.type, apiMessages),
                                 !.reqLog = Append(@, [step |-> "send",
                                                       apiMessages |-> apiMessages])]]

\* apiService.sendMessage settles in sendMessage
sendMessageSettled(w, c, o) ==
  LET response == AdapterResult(c.model.type, o)
      w1 == AddMessage(w, c.conv, "assistant", AssistantText(response))
  IN Resolved(w1, IF response.hasError THEN NoteFailure(w1, c) ELSE c)

(***************************************************************************)
(* ChatService.sendMessageStream and the onStreamUpdate callback that      *)
(* ChatView.sendMessage passes to it.                                      *)
(***************************************************************************)
\* (content, isComplete) => { setStreamingContent(content); if (isComplete)
\* setSending(false); }: a state setter of an unmounted component does nothing
onStreamUpdate(w, c, content, isComplete) ==
  [w |-> IF c.attached
         THEN [w EXCEPT !.view.streamingContent = content,
                        !.view.sending = IF isComplete THEN FALSE ELSE @]
         ELSE w,
   c |-> [c EXCEPT !.uiLog = Append(@, OnStreamCall(content, isComplete))]]

\* store.updateMessageContent(conversationId, assistantMessageId, text) is reached:
\* updLog records the id it is given (0: undefined, what the void addMessage
\* returned) and the conversation's last message at that moment
NoteUpdate(w, c) ==
  [c EXCEPT !.updLog = Append(@, [target |-> 0, at |-> LastOf(w.convs, c.conv)])]

\* the calls of handleStreamResponse the adapter made in one step
RECURSIVE HandleStreamResponses(_, _, _)
HandleStreamResponses(w, c, log) ==
  IF log = <<>> THEN [w |-> w, c |-> c]
  ELSE LET r == onStreamUpdate(w, c, Head(log).text, Head(log).isComplete)
       IN HandleStreamResponses(r.w, NoteUpdate(r.w, r.c), Tail(log))

\* The adapter's call moved from c.st to st: its onStream calls reach
\* handleStreamResponse; when it rejected, the catch of sendMessageStream calls
\* onStreamUpdate(errorText, true), and store.updateMessageContent throws.
StreamAdvance(w, c, st, failed) ==
  LET r == HandleStreamResponses(w, c, SubSeq(st.log, Len(c.st.log) + 1, Len(st.log)))
      c1 == [r.c EXCEPT !.st = st, !.pc = st.pc,
               !.reqLog = IF st.reqs > c.st.reqs
                          THEN Append(@, [step |-> "stream",
                                          apiMessages |-> ApiMessages(
                                            FindConversation(w.convs, c.conv).messages)])
                          ELSE @]
  IN IF st.pc # "settled" THEN [w |-> r.w, c |-> c1]
     ELSE IF st.settled = "resolved" THEN Resolved(r.w, c1)
     ELSE LET e == onStreamUpdate(r.w, c1, ErrPrefix \o st.thrown.message, TRUE)
              c2 == NoteUpdate(e.w, e.c)
          IN Rejected(e.w, IF failed THEN NoteFailure(e.w, c2) ELSE c2)

\* sendMessageStream from its call to fetch
sendMessageStream(w, c, content) ==
  IF ~HasConversation(w.convs, c.conv) THEN Rejected(w, c)
  ELSE IF ~HasModel(models, FindConversation(w.convs, c.conv).modelId) THEN Rejected(w, c)
  ELSE LET model == FindModel(models, FindConversation(w.convs, c.conv).modelId)
           c1 == [c EXCEPT !.model = model]
       IN IF ApiKeyMissing(model)
          THEN LET u == onStreamUpdate(w, c1, ErrPrefix \o KeyMissingLong, TRUE)
               IN Resolved(AddMessage(u.w, c.conv, "assistant", ErrPrefix \o KeyMissingLong), u.c)
          ELSE LET w1 == AddMessage(w, c.conv, "user", content)
                   w2 == AddMessage(w1, c.conv, "assistant", <<>>)
                   c2 == [c1 EXCEPT !.userLog = Append(@, w.nid), !.placeholder = w1.nid]
               IN StreamAdvance(w2, c2,
                    StreamStart(model.type, model.modelName,
                                ApiMessages(FindConversation(w2.convs, c.conv).messages), c2.st),
                    ReturnsBeforeRequest(model.type, model.modelName))

(***************************************************************************)
(* The pages.  view: page ("home" shows ChatView when a conversation is    *)
(* current, "new" is the new-conversation form), isCreating (the form's    *)
(* state), sending, useStreamingMode, streamingContent (ChatView's state). *)
(* A component that is not mounted has its initial state.                  *)
(***************************************************************************)
FreshView(page) ==
  [page |-> page, isCreating |-> FALSE, sending |-> FALSE, useStreamingMode |-> TRUE,
   streamingContent |-> <<>>]

\* Home renders currentConversationId ? <ChatView /> : ...
ChatViewMounted(w) == w.view.page = "home" /\ w.cur # 0

\* the page changed or ChatView went away: the components' state is lost
Unmounts(w0, w1) ==
  \/ w0.view.page # w1.view.page
  \/ ChatViewMounted(w0) /\ ~ChatViewMounted(w1)

\* the catch of ChatView.sendMessage: setSending(false)
ChatViewCatch(r) ==
  IF r.c.result = "rejected" /\ r.c.attached /\ r.c.op # "initializeWithPreset"
  THEN [r EXCEPT !.w.view.sending = FALSE]
  ELSE r

\* onSubmit after await ChatService.initializeWithPreset(...): router.push("/") and
\* finally setIsCreating(false)
OnSubmitDone(r) ==
  IF r.c.result = "pending" \/ ~r.c.fromSubmit THEN r
  ELSE IF r.w.view.page = "new" THEN [r EXCEPT !.w.view = FreshView("home")]
  ELSE r

\* The variables after a handler ran for call k (a new call when k = Len(calls) + 1)
\* with outcome r.
Apply(k, r0) ==
  LET r == OnSubmitDone(ChatViewCatch(r0))
      gone == Unmounts(World, r.w)
      w == IF gone /\ ~ChatViewMounted(r.w) /\ r.w.view.page = "home"
           THEN [r.w EXCEPT !.view = FreshView("home")] ELSE r.w
  IN /\ conversations' = w.convs
     /\ currentConversationId' = w.cur
     /\ nextId' = w.nid
     /\ creating' = w.creating
     /\ view' = w.view
     /\ calls' = [j \in 1..(IF k > Len(calls) THEN k ELSE Len(calls)) |->
                    IF j = k THEN [r.c EXCEPT !.attached = @ /\ ~gone]
                    ELSE [calls[j] EXCEPT !.attached = @ /\ ~gone]]
     /\ UNCHANGED <<svc, models, presets, selectedConversations>>

\* The outcomes of a provider request and the chunks of a streamed response.
AppOutcomes ==
  {OkOutcome("text", ReplyText), OkOutcome("null", <<>>),
   ErrOutcome(ThrownError(AxiosMessage, 401, "string", <<"vendor error">>, <<>>))}

AppFetchOutcomes == {"reject", "notok", "ok"}

AppChunks ==
  {<<Delta(<<"b">>), Line("stop"), Delta(<<"c">>)>>, <<Line("block")>>}

\* what the user types into the input box
Typed == {<<WS>>, <<WS, "hello">>}

(***************************************************************************)
(* The steps of the ChatService calls.                                     *)
(***************************************************************************)
\* axios.post settles in a priming step
PrimingSettles(k) ==
  /\ calls[k].op = "initializeWithPreset" /\ calls[k].pc = "posted"
  /\ \E o \in AppOutcomes : Apply(k, PrimingSettled(World, calls[k], o))

PrimingTimer(k) ==
  /\ calls[k].op = "initializeWithPreset" /\ calls[k].pc = "delay"
  /\ Apply(k, PrimingDelayOver(World, calls[k]))

SendSettles(k) ==
  /\ calls[k].op = "sendMessage" /\ calls[k].pc = "posted"
  /\ \E o \in AppOutcomes : Apply(k, sendMessageSettled(World, calls[k], o))

StreamFetchSettles(k) ==
  /\ calls[k].op = "sendMessageStream" /\ calls[k].pc = "fetching"
  /\ \E o \in AppFetchOutcomes :
       Apply(k, StreamAdvance(World, calls[k],
                              FetchSettled(calls[k].model.type, calls[k].st, o), o # "ok"))

StreamRead(k) ==
  /\ calls[k].op = "sendMessageStream" /\ calls[k].pc = "reading"
  /\ calls[k].st.nread < MaxAppChunks
  /\ \E ch \in AppChunks :
       Apply(k, StreamAdvance(World, calls[k], ReadChunk(calls[k].model.type, calls[k].st, ch),
                              calls[k].model.type = "gemini" /\ ch = <<Line("block")>>))

StreamReadDone(k) ==
  /\ calls[k].op = "sendMessageStream" /\ calls[k].pc = "reading"
  /\ Apply(k, StreamAdvance(World, calls[k], ReadDone(calls[k].model.type, calls[k].st), FALSE))

\* store.deleteConversation(id), from ChatView's confirmDelete or the sidebar
DeleteConversation(id) ==
  /\ view.page = "home" /\ HasConversation(conversations, id)
  /\ LET w == [World EXCEPT !.convs = deleteConversation(@, id),
                            !.cur = IF @ = id THEN 0 ELSE @]
         gone == Unmounts(World, w)
     IN /\ conversations' = w.convs
        /\ currentConversationId' = w.cur
        /\ view' = IF gone THEN FreshView("home") ELSE view
        /\ calls' = [j \in 1..Len(calls) |-> [calls[j] EXCEPT !.attached = @ /\ ~gone]]
  /\ selectedConversations' = SelectSeq(selectedConversations, LAMBDA convId : convId # id)
  /\ UNCHANGED <<svc, models, presets, creating, nextId>>

(***************************************************************************)
(* The user's actions.                                                     *)
(***************************************************************************)
\* ChatView.sendMessage, after its guard, up to the first await of the ChatService call
ChatViewSendMessage(w, message) ==
  LET w1 == [w EXCEPT !.view.sending = TRUE, !.view.streamingContent = <<>>]
      op == IF w.view.useStreamingMode THEN "sendMessageStream" ELSE "sendMessage"
      c == [NewCall(op, w.cur, NoModel, NoPreset) EXCEPT !.attached = TRUE]
  IN IF w.view.useStreamingMode
     THEN sendMessageStream(w1, c, Trim(message))
     ELSE sendMessage(w1, c, Trim(message))

ChatViewSend ==
  /\ ChatViewMounted(World) /\ HasConversation(conversations, currentConversationId)
  /\ Len(calls) < MaxCalls
  /\ \E message \in Typed :
       /\ ~(Trim(message) = <<>> \/ view.sending)
       /\ Apply(Len(calls) + 1, ChatViewSendMessage(World, message))

\* the Switch: onCheckedChange={setUseStreamingMode}
ToggleStreamingMode ==
  /\ ChatViewMounted(World) /\ HasConversation(conversations, currentConversationId)
  /\ view' = [view EXCEPT !.useStreamingMode = ~@]
  /\ UNCHANGED <<svc, conversations, currentConversationId, models, presets, creating,
                 nextId, calls, selectedConversations>>

\* router.push("/new-conversation"), and the form's cancel button: router.push("/")
Navigate(page) ==
  /\ view.page # page
  /\ view' = FreshView(page)
  /\ calls' = [j \in 1..Len(calls) |-> [calls[j] EXCEPT !.attached = FALSE]]
  /\ UNCHANGED <<svc, conversations, currentConversationId, models, presets, creating, nextId,
                 selectedConversations>>

\* the checks of onSubmit that end in an alert
SubmitAccepted(modelId) ==
  /\ HasModel(models, modelId)
  /\ ~ApiKeyMissing(FindModel(models, modelId))
  /\ Trim(FindModel(models, modelId).modelName) # <<>>

HasPreset(id) == \E i \in 1..Len(presets) : presets[i].id = id

FindPreset(id) == presets[CHOOSE i \in 1..Len(presets) : presets[i].id = id]

\* onSubmit with presetId "none": createConversation and router.push("/")
SubmitWithoutPreset(modelId) ==
  /\ view.page = "new" /\ ~view.isCreating
  /\ Len(conversations) < MaxConvs /\ nextId < MaxIds
  /\ SubmitAccepted(modelId)
  /\ conversations' = createConversation(conversations, nextId, modelId, 0)
  /\ currentConversationId' = nextId
  /\ nextId' = nextId + 1
  /\ view' = FreshView("home")
  /\ calls' = [j \in 1..Len(calls) |-> [calls[j] EXCEPT !.attached = FALSE]]
  /\ UNCHANGED <<svc, models, presets, creating, selectedConversations>>

\* onSubmit with a preset, up to the first await of initializeWithPreset
onSubmit(w, modelId, presetId) ==
  LET w1 == [w EXCEPT !.convs = createConversation(@, w.nid, modelId, presetId),
                      !.cur = w.nid, !.nid = @ + 1, !.view.isCreating = TRUE]
      c == [NewCall("initializeWithPreset", w.nid, FindModel(models, modelId),
                    [FindPreset(presetId) EXCEPT !.isNull = FALSE])
              EXCEPT !.attached = TRUE, !.fromSubmit = TRUE]
  IN initializeWithPreset(w1, c)

SubmitWithPreset(modelId, presetId) ==
  /\ view.page = "new" /\ ~view.isCreating
  /\ Len(conversations) < MaxConvs /\ nextId < MaxIds
  /\ Len(calls) < MaxCalls
  /\ SubmitAccepted(modelId) /\ HasPreset(presetId)
  /\ Apply(Len(calls) + 1, onSubmit(World, modelId, presetId))

(***************************************************************************)
(* The application driven from its pages.                                  *)
(***************************************************************************)
SvcIdle == NewSvc("openai", <<>>, <<>>, "none", FALSE)

Conversation1 == [id |-> 1, modelId |-> 1, presetId |-> 0, messages |-> <<>>]

StoredPresets ==
  <<[isNull |-> FALSE, id |-> 1, armoringPrompt |-> <<"armor">>, systemPrompt |-> <<"system">>],
    [isNull |-> FALSE, id |-> 2, armoringPrompt |-> <<WS>>, systemPrompt |-> <<"system">>]>>

\* a configured model of each type, and those whose key is empty or blank
StoredModels ==
  {[id |-> 1, type |-> t, apiKey |-> <<"sk-1">>, modelName |-> <<"model-1">>] : t \in ModelType}
    \cup {[id |-> 1, type |-> "openai", apiKey |-> key, modelName |-> <<"model-1">>] :
            key \in {<<>>, <<WS>>}}

Init ==
  /\ svc = SvcIdle
  /\ conversations = <<Conversation1>>
  /\ currentConversationId = 1
  /\ \E m \in StoredModels : models = <<m>>
  /\ presets = StoredPresets
  /\ creating = FALSE
  /\ nextId = 2
  /\ calls = <<>>
  /\ view = FreshView("home")
  /\ selectedConversations = <<>>

Next ==
  \/ ChatViewSend
  \/ ToggleStreamingMode
  \/ \E page \in {"home", "new"} : Navigate(page)
  \/ \E m \in 1..1 : SubmitWithoutPreset(m)
  \/ \E m \in 1..1, p \in 1..2 : SubmitWithPreset(m, p)
  \/ \E k \in 1..Len(calls) : PrimingSettles(k)
  \/ \E k \in 1..Len(calls) : PrimingTimer(k)
  \/ \E k \in 1..Len(calls) : SendSettles(k)
  \/ \E k \in 1..Len(calls) : StreamFetchSettles(k)
  \/ \E k \in 1..Len(calls) : StreamRead(k)
  \/ \E k \in 1..Len(calls) : StreamReadDone(k)

Spec == Init /\ [][Next]_vars

(***************************************************************************)
(* ChatService.initializeWithPreset called with any conversation, model    *)
(* and preset, while the conversation may be deleted.                      *)
(***************************************************************************)
PresetInputs ==
  {NoPreset} \cup
  {[isNull |-> FALSE, id |-> 1, armoringPrompt |-> a, systemPrompt |-> s] :
     a \in {<<>>, <<WS>>, <<"armor">>}, s \in {<<>>, <<WS>>, <<"system">>}}

ModelInputs ==
  {[id |-> 1, type |-> t, apiKey |-> key, modelName |-> n] :
     t \in ModelType, key \in {<<>>, <<WS>>, <<"sk-1">>}, n \in ModelNames}

InitPreset ==
  /\ svc = SvcIdle
  /\ conversations = <<Conversation1>>
  /\ currentConversationId = 1
  /\ \E m \in ModelInputs, p \in PresetInputs :
       /\ models = <<m>>
       /\ presets = IF p.isNull THEN <<>> ELSE <<p>>
       /\ calls = <<NewCall("initializeWithPreset", 1, m, p)>>
  /\ creating = FALSE
  /\ nextId = 2
  /\ view = FreshView("home")
  /\ selectedConversations = <<>>

CallInitializeWithPreset(k) ==
  /\ calls[k].op = "initializeWithPreset" /\ calls[k].pc = "start"
  /\ Apply(k, initializeWithPreset(World, calls[k]))

NextPreset ==
  \/ \E k \in 1..Len(calls) : CallInitializeWithPreset(k)
  \/ \E k \in 1..Len(calls) : PrimingSettles(k)
  \/ \E k \in 1..Len(calls) : PrimingTimer(k)
  \/ \E id \in 1..1 : DeleteConversation(id)

SpecPreset == InitPreset /\ [][NextPreset]_vars

(***************************************************************************)
(* The two specifications of a directly called adapter.                    *)
(***************************************************************************)
\* No ChatService call, no stored data.
AppQuiet ==
  /\ conversations = <<>>
  /\ currentConversationId = 0
  /\ models = <<>>
  /\ presets = <<>>
  /\ creating = FALSE
  /\ nextId = 1
  /\ calls = <<>>
  /\ view = FreshView("home")
  /\ selectedConversations = <<>>

InitAdapter ==
  /\ svc \in {NewSvc(t, n, m, me, FALSE) :
                t \in ModelType, n \in ModelNames, m \in MessageLists,
                me \in {"sendMessage", "sendMessageStream"}}
  /\ AppQuiet

\* sendMessage up to axios.post
SvcSendMessage ==
  /\ svc.method = "sendMessage" /\ svc.st.pc = "idle"
  /\ svc' = IF ReturnsBeforeRequest(svc.type, svc.modelName)
            THEN [svc EXCEPT !.st.pc = "settled", !.st.settled = "resolved",
                             !.result = Failure(OpenAINoModel)]
            ELSE [svc EXCEPT !.st.pc = "posted", !.st.reqs = @ + 1,
                             !.st.wire = OutgoingMessages(svc.type, svc.messages)]
  /\ UNCHANGED appVars

\* axios.post settles and sendMessage returns
SvcAxiosSettles ==
  /\ svc.st.pc = "posted"
  /\ \E o \in AxiosOutcomes :
       svc' = [svc EXCEPT !.st.pc = "settled", !.st.settled = "resolved",
                          !.outcome = o, !.result = AdapterResult(svc.type, o)]
  /\ UNCHANGED appVars

\* sendMessageStream up to fetch
SvcSendMessageStream ==
  /\ svc.method = "sendMessageStream" /\ svc.st.pc = "idle"
  /\ svc' = [svc EXCEPT !.st = StreamStart(svc.type, svc.modelName, svc.messages, svc.st)]
  /\ UNCHANGED appVars

NextAdapter == SvcSendMessage \/ SvcAxiosSettles \/ SvcSendMessageStream

SpecAdapter == InitAdapter /\ [][NextAdapter]_vars

(***************************************************************************)
(* The streamed response of a directly called adapter.                    *)
(***************************************************************************)
StreamMessages ==
  <<[role |-> "user", content |-> <<"c1">>], [role |-> "assistant", content |-> <<"c2">>]>>

InitStream ==
  /\ svc \in {NewSvc(t, n, StreamMessages, "sendMessageStream", th) :
                t \in ModelType, n \in ModelNames, th \in BOOLEAN}
  /\ AppQuiet

SvcFetchSettles ==
  /\ svc.st.pc = "fetching"
  /\ \E o \in FetchOutcomes : svc' = [svc EXCEPT !.st = FetchSettled(svc.type, svc.st, o)]
  /\ UNCHANGED appVars

SvcRead ==
  /\ svc.st.pc = "reading" /\ svc.st.nread < MaxChunks
  /\ \E c \in StreamChunks : svc' = [svc EXCEPT !.st = ReadChunk(svc.type, svc.st, c)]
  /\ UNCHANGED appVars

SvcReadDone ==
  /\ svc.st.pc = "reading"
  /\ svc' = [svc EXCEPT !.st = ReadDone(svc.type, svc.st)]
  /\ UNCHANGED appVars

NextStream == SvcSendMessageStream \/ SvcFetchSettles \/ SvcRead \/ SvcReadDone

SpecStream == InitStream /\ [][NextStream]_vars

(***************************************************************************)
(* Claims about the adapters (SpecAdapter, SpecStream).                    *)
(***************************************************************************)
\* the roles each vendor accepts
AcceptedRoles(type) ==
  CASE type \in {"openai", "deepseek"} -> {"user", "system", "assistant"}
    [] type = "claude" -> {"user", "assistant"}
    [] type = "gemini" -> {"user", "model"}

RECURSIVE Concat(_)
Concat(texts) == IF texts = <<>> THEN <<>> ELSE Head(texts) \o Concat(Tail(texts))

\* C7: each adapter's sendMessage resolves, never rejects; the result either has
\* response text and no error, or a non-empty error string, and a result that
\* carries an error has content "".
C7_SendMessageResult ==
  (svc.method = "sendMessage" /\ svc.st.pc = "settled") =>
     /\ svc.st.settled = "resolved"
     /\ svc.result.hasError =>
          svc.result.error # <<>> /\ svc.result.isText /\ svc.result.content = <<>>
     /\ ~svc.result.hasError => svc.result.isText

\* C8: every onStream call with isComplete = false carries the concatenation, in
\* arrival order, of the non-empty text deltas extracted so far, hence strictly
\* extends the text of the previous such call; and once reader.read() has returned
\* done, onStream has been called with (the full accumulated text, true) after
\* every call with isComplete = false.
C8_CumulativeStream ==
  LET log == svc.st.log
      open == SelectSeq(log, LAMBDA c : ~c.isComplete)
  IN /\ Len(open) = Len(svc.st.deltas)
     /\ \A k \in 1..Len(open) :
          /\ open[k].text = Concat(SubSeq(svc.st.deltas, 1, k))
          /\ k > 1 => /\ IsPrefix(open[k - 1].text, open[k].text)
                      /\ Len(open[k].text) > Len(open[k - 1].text)
     /\ svc.st.ended =>
          \E i \in 1..Len(log) :
            /\ log[i] = OnStreamCall(Concat(svc.st.deltas), TRUE)
            /\ \A j \in 1..Len(log) : ~log[j].isComplete => j < i

C8_Witness ==
  /\ svc.type = "gemini" /\ svc.st.ended /\ svc.st.settled = "resolved"
  /\ Len(svc.st.deltas) = 3
  /\ Last(svc.st.log) = OnStreamCall(<<"b", "c", "a">>, TRUE)

\* C9: OpenAI and DeepSeek send the lower-cased role if it is user, system or
\* assistant, Claude if it is user or assistant, and "user" otherwise; Gemini sends
\* only user and model; so every outgoing role is one the vendor accepts, and for
\* OpenAI and Claude the outgoing list has the input's length, order and contents.
C9_RoleNormalization ==
  svc.st.reqs > 0 =>
    LET src == svc.messages
        out == svc.st.wire
        Expected(role, set) == IF toLowerCase(role) \in set THEN toLowerCase(role) ELSE "user"
    IN /\ \A i \in 1..Len(out) : out[i].role \in AcceptedRoles(svc.type)
       /\ svc.type \in {"openai", "deepseek"} =>
            /\ Len(out) >= Len(src)
            /\ \A i \in 1..Len(src) :
                 out[i].role = Expected(src[i].role, {"user", "system", "assistant"})
       /\ svc.type = "claude" =>
            \A i \in 1..Len(src) : out[i].role = Expected(src[i].role, {"user", "assistant"})
       /\ svc.type \in {"openai", "claude"} =>
            /\ Len(out) = Len(src)
            /\ \A i \in 1..Len(src) : out[i].content = src[i].content

C9_Witness ==
  /\ svc.st.reqs > 0 /\ svc.type = "claude" /\ Len(svc.messages) = 3
  /\ svc.messages[1].role = "SYSTEM" /\ svc.messages[2].role = "tool"
  /\ svc.messages[3].role = "User"
  /\ svc.st.wire[1].role = "user" /\ svc.st.wire[3].role = "user"

\* C10: for DeepSeek (sendMessage and sendMessageStream) and Gemini a non-empty
\* outgoing list ends with a user turn: when the last turn after normalization is
\* not a user turn exactly one filler user turn is appended, and when it is one
\* nothing is appended.
C10_TrailingUserTurn ==
  (svc.st.reqs > 0 /\ svc.type \in {"deepseek", "gemini"}) =>
    LET out == svc.st.wire
        filler == [role |-> "user", content |-> FillerAnswer]
        pre == IF svc.type = "deepseek" THEN DeepSeekNormalized(svc.messages)
               ELSE IF Len(svc.messages) <= 2 THEN GeminiSimple(svc.messages)
               ELSE GeminiTurns(svc.messages)
    IN /\ out # <<>> => Last(out).role = "user"
       /\ IF pre # <<>> /\ Last(pre).role # "user"
          THEN out = Append(pre, filler)
          ELSE out = pre

C10_Witness ==
  /\ svc.st.reqs > 0 /\ svc.type = "deepseek" /\ svc.method = "sendMessageStream"
  /\ Len(svc.messages) = 3 /\ svc.messages[3].role = "assistant"
  /\ Len(svc.st.wire) = 4 /\ svc.st.wire[4].content = FillerAnswer

(***************************************************************************)
(* Claims about ChatService.initializeWithPreset (SpecPreset).             *)
(***************************************************************************)
IsInit(c) == c.op = "initializeWithPreset"

BothPrompts(c) ==
  ~c.preset.isNull /\ Trim(c.preset.armoringPrompt) # <<>> /\ Trim(c.preset.systemPrompt) # <<>>

\* the number of non-blank prompts of the preset
NonBlankPrompts(c) ==
  IF c.preset.isNull THEN 0
  ELSE (IF Trim(c.preset.armoringPrompt) # <<>> THEN 1 ELSE 0)
       + (IF Trim(c.preset.systemPrompt) # <<>> THEN 1 ELSE 0)

PrimingRoles == <<"user", "assistant", "user", "assistant">>

\* The conversation is a prefix of [user armoring, assistant, user system, assistant],
\* every request carried the prompt of its step as the last message after the reply
\* to the step before, and it is the whole list once the call has resolved.
PrimingOrder(c) ==
  LET ms == FindConversation(conversations, c.conv).messages
  IN /\ Len(ms) <= 4
     /\ \A i \in 1..Len(ms) : ms[i].role = PrimingRoles[i]
     /\ Len(ms) >= 1 => ms[1].content = c.preset.armoringPrompt
     /\ Len(ms) >= 3 => ms[3].content = c.preset.systemPrompt
     /\ \A i \in 1..Len(c.reqLog) :
          /\ c.reqLog[i].step = (IF i = 1 THEN "armoring" ELSE "system")
          /\ c.reqLog[i].apiMessages = ApiMessages(SubSeq(ms, 1, 2 * i - 1))
     /\ c.result = "resolved" => Len(ms) = 4

C1_AsStated ==
  \A k \in 1..Len(calls) :
    (IsInit(calls[k]) /\ BothPrompts(calls[k]) /\ calls[k].pc # "start"
       /\ calls[k].model.apiKey # <<>> /\ HasConversation(conversations, calls[k].conv))
      => PrimingOrder(calls[k])

\* C1: for a preset whose two prompts are non-blank, a model whose API key is
\* non-blank and a conversation that exists throughout, the armoring prompt is added
\* as a user message and handed to the adapter first, the system prompt is added and
\* handed over only after the reply or error of the armoring step has been added as
\* an assistant message, and the conversation ends as exactly [user armoring,
\* assistant, user system, assistant].
C1_PrimingOrder ==
  \A k \in 1..Len(calls) :
    (IsInit(calls[k]) /\ BothPrompts(calls[k]) /\ calls[k].pc # "start"
       /\ Trim(calls[k].model.apiKey) # <<>> /\ HasConversation(conversations, calls[k].conv))
      => PrimingOrder(calls[k])

C1_Witness ==
  \E k \in 1..Len(calls) :
    /\ IsInit(calls[k]) /\ BothPrompts(calls[k]) /\ calls[k].result = "resolved"
    /\ Trim(calls[k].model.apiKey) # <<>> /\ HasConversation(conversations, calls[k].conv)
    /\ Len(calls[k].reqLog) = 2
    /\ LET ms == FindConversation(conversations, calls[k].conv).messages
       IN Len(ms) = 4 /\ IsPrefix(ErrPrefix, ms[2].content) /\ ms[4].content = ReplyText

PrimingCounts(c) ==
  Len(c.userLog) = NonBlankPrompts(c) /\ Len(c.reqLog) = NonBlankPrompts(c)

C2_AsStated ==
  \A k \in 1..Len(calls) :
    (IsInit(calls[k]) /\ calls[k].result = "resolved" /\ calls[k].model.apiKey # <<>>)
      => PrimingCounts(calls[k])

\* C2: with a model whose API key is non-blank and whose model identifier the adapter
\* accepts, and a conversation that exists throughout, initializeWithPreset adds as
\* many user messages and issues as many provider requests as there are non-blank
\* prompts among (armoringPrompt, systemPrompt): zero, one or two; none for a null
\* preset or two blank prompts.
C2_PrimingCounts ==
  \A k \in 1..Len(calls) :
    (IsInit(calls[k]) /\ calls[k].result = "resolved"
       /\ Trim(calls[k].model.apiKey) # <<>>
       /\ ~ReturnsBeforeRequest(calls[k].model.type, calls[k].model.modelName)
       /\ HasConversation(conversations, calls[k].conv))
      => PrimingCounts(calls[k])

C2_Witness ==
  \E k \in 1..Len(calls) :
    /\ IsInit(calls[k]) /\ calls[k].result = "resolved"
    /\ Trim(calls[k].model.apiKey) # <<>> /\ HasConversation(conversations, calls[k].conv)
    /\ ~calls[k].preset.isNull /\ Trim(calls[k].preset.armoringPrompt) = <<>>
    /\ calls[k].preset.armoringPrompt # <<>>
    /\ Len(calls[k].userLog) = 1 /\ Len(calls[k].reqLog) = 1

(***************************************************************************)
(* Claims about the application (Spec).                                    *)
(***************************************************************************)
IsFreeFormSend(c) == c.op \in {"sendMessage", "sendMessageStream"}

\* a streaming send is between creating its placeholder and settling
StreamUpdating(id) ==
  \E k \in 1..Len(calls) :
    /\ calls[k].op = "sendMessageStream" /\ calls[k].conv = id
    /\ calls[k].pc \in {"fetching", "reading"}

\* old is a prefix of new in ids, roles and order; content is kept, except that of
\* old's last message when lastMayChange
ExtendsMessages(old, new, lastMayChange) ==
  /\ Len(old) <= Len(new)
  /\ \A j \in 1..Len(old) :
       /\ new[j].id = old[j].id
       /\ new[j].role = old[j].role
       /\ new[j].content = old[j].content \/ (lastMayChange /\ j = Len(old))

\* C3: for every conversation and every step of a ChatService operation, the message
\* list before the step is a prefix of the list after it in ids, roles and order; no
\* message is removed, reordered or changes its role, and no content changes except
\* that of the last message while a streaming send is updating it.
C3_AppendOnly ==
  [][\A i \in 1..Len(conversations) :
       HasConversation(conversations', conversations[i].id) =>
         ExtendsMessages(conversations[i].messages,
                         FindConversation(conversations', conversations[i].id).messages,
                         StreamUpdating(conversations[i].id))]_vars

C3_Witness ==
  /\ \E i \in 1..Len(conversations) : Len(conversations[i].messages) >= 4
  /\ \E k \in 1..Len(calls) : calls[k].op = "sendMessageStream" /\ calls[k].pc = "settled"
  /\ \E k \in 1..Len(calls) : calls[k].op = "initializeWithPreset" /\ calls[k].pc = "settled"

ErrorMessageLast(f) ==
  /\ f.last.role = "assistant"
  /\ IsPrefix(ErrPrefix, f.last.content)
  /\ Len(f.last.content) > Len(ErrPrefix)

\* C4: whenever the provider call of a free-form send (sendMessage or
\* sendMessageStream) or of a priming step fails, the operation does not reject, and
\* right after the failure has been handled the last message of the conversation is
\* an assistant message whose content is the error text after the error prefix.
C4_FailureBecomesMessage ==
  \A k \in 1..Len(calls) :
    /\ calls[k].failures # <<>> => calls[k].result # "rejected"
    /\ \A i \in 1..Len(calls[k].failures) :
         calls[k].failures[i].exists => ErrorMessageLast(calls[k].failures[i])

\* the same for sendMessage and the priming steps alone
C4_NonStreaming ==
  \A k \in 1..Len(calls) :
    calls[k].op # "sendMessageStream" =>
      /\ calls[k].failures # <<>> => calls[k].result # "rejected"
      /\ \A i \in 1..Len(calls[k].failures) :
           calls[k].failures[i].exists => ErrorMessageLast(calls[k].failures[i])

\* C5: no retry: a free-form send issues at most one provider request and
\* initializeWithPreset at most one per priming step, also when the request fails.
C5_NoRetry ==
  \A k \in 1..Len(calls) :
    /\ IsFreeFormSend(calls[k]) => Len(calls[k].reqLog) <= 1
    /\ \A i, j \in 1..Len(calls[k].reqLog) :
         calls[k].reqLog[i].step = calls[k].reqLog[j].step => i = j

C5_Witness ==
  /\ \E k \in 1..Len(calls) :
       /\ IsInit(calls[k]) /\ calls[k].pc = "settled"
       /\ Len(calls[k].failures) = 2 /\ Len(calls[k].reqLog) = 2
  /\ \E k \in 1..Len(calls) :
       /\ calls[k].op = "sendMessageStream" /\ calls[k].pc = "settled"
       /\ calls[k].failures # <<>> /\ Len(calls[k].reqLog) = 1

\* the provider request of a send started from the mounted ChatView has not finished:
\* its response has not arrived or is still being read
InFlightFromView(c) ==
  IsFreeFormSend(c) /\ c.attached /\ c.pc \in {"posted", "fetching", "reading"}

\* C6: from the chat view at most one provider request is in flight at any time:
\* while a send has not finished reading its response the sending flag is set, so a
\* further sendMessage from the input box is ignored.
C6_OneInFlight ==
  /\ Cardinality({k \in 1..Len(calls) : InFlightFromView(calls[k])}) <= 1
  /\ (\E k \in 1..Len(calls) : InFlightFromView(calls[k])) => view.sending

\* the same for the providers other than Claude
C6_NotClaude ==
  (\A k \in 1..Len(calls) : calls[k].model.type # "claude") =>
    /\ Cardinality({k \in 1..Len(calls) : InFlightFromView(calls[k])}) <= 1
    /\ (\E k \in 1..Len(calls) : InFlightFromView(calls[k])) => view.sending

(***************************************************************************)
(* ChatService.sendMessage and sendMessageStream called for any            *)
(* conversation id, while conversations and models are deleted from the    *)
(* store.                                                                  *)
(***************************************************************************)
InitService ==
  /\ svc = SvcIdle
  /\ conversations = <<Conversation1, [Conversation1 EXCEPT !.id = 2]>>
  /\ currentConversationId = 1
  /\ \E m \in StoredModels : models = <<m>>
  /\ presets = <<>>
  /\ creating = FALSE
  /\ nextId = 3
  /\ calls = <<>>
  /\ view = FreshView("home")
  /\ selectedConversations = <<>>

CallSendMessage(id) ==
  /\ Len(calls) < MaxCalls
  /\ Apply(Len(calls) + 1,
           sendMessage(World, NewCall("sendMessage", id, NoModel, NoPreset), <<"hello">>))

CallSendMessageStream(id) ==
  /\ Len(calls) < MaxCalls
  /\ Apply(Len(calls) + 1,
           sendMessageStream(World, NewCall("sendMessageStream", id, NoModel, NoPreset),
                             <<"hello">>))

\* store.deleteMultipleConversations(ids)
DeleteMultipleConversations(ids) ==
  /\ LET w == [World EXCEPT
                 !.convs = SelectSeq(@, LAMBDA conv : conv.id \notin ids),
                 !.cur = IF @ \in ids THEN 0 ELSE @]
         gone == Unmounts(World, w)
     IN /\ conversations' = w.convs
        /\ currentConversationId' = w.cur
        /\ view' = IF gone THEN FreshView("home") ELSE view
        /\ calls' = [j \in 1..Len(calls) |-> [calls[j] EXCEPT !.attached = @ /\ ~gone]]
  /\ selectedConversations' = <<>>
  /\ UNCHANGED <<svc, models, presets, creating, nextId>>

\* store.deleteModel(id)
DeleteModel(id) ==
  /\ HasModel(models, id)
  /\ models' = SelectSeq(models, LAMBDA model : model.id # id)
  /\ UNCHANGED <<svc, conversations, currentConversationId, presets, creating, nextId, calls,
                 view, selectedConversations>>

NextService ==
  \/ \E id \in 1..2 : CallSendMessage(id)
  \/ \E id \in 1..2 : CallSendMessageStream(id)
  \/ \E id \in 1..2 : DeleteConversation(id)
  \/ \E ids \in {{2}, {1, 2}} : (conversations # <<>> /\ DeleteMultipleConversations(ids))
  \/ \E id \in 1..1 : DeleteModel(id)
  \/ \E k \in 1..Len(calls) : SendSettles(k)
  \/ \E k \in 1..Len(calls) : StreamFetchSettles(k)
  \/ \E k \in 1..Len(calls) : StreamRead(k)
  \/ \E k \in 1..Len(calls) : StreamReadDone(k)

SpecService == InitService /\ [][NextService]_vars

(***************************************************************************)
(* The store's operations on conversations, the selection and the presets, *)
(* as the pages issue them.                                                *)
(***************************************************************************)
InitStore ==
  /\ svc = SvcIdle
  /\ conversations = <<>>
  /\ currentConversationId = 0
  /\ \E m \in StoredModels : models = <<m>>
  /\ presets = StoredPresets
  /\ creating = FALSE
  /\ nextId = 1
  /\ calls = <<>>
  /\ view = FreshView("home")
  /\ selectedConversations = <<>>

\* store.createConversation(title, modelId, presetId), presetId null (0) or, as
\* onSubmit has checked, the id of a stored preset
CreateConversation(modelId, presetId) ==
  /\ Len(conversations) < MaxConvs /\ nextId < MaxIds
  /\ presetId = 0 \/ HasPreset(presetId)
  /\ conversations' = createConversation(conversations, nextId, modelId, presetId)
  /\ currentConversationId' = nextId
  /\ nextId' = nextId + 1
  /\ UNCHANGED <<svc, models, presets, creating, calls, view, selectedConversations>>

\* store.addMessage(conversationId, role, content)
StoreAddMessage(conversationId) ==
  /\ nextId < MaxIds
  /\ conversations' = addMessage(conversations, conversationId, nextId, "user", <<"hello">>)
  /\ nextId' = nextId + 1
  /\ UNCHANGED <<svc, currentConversationId, models, presets, creating, calls, view,
                 selectedConversations>>

\* store.setCurrentConversation(id): a conversation card's id, or null (0)
SetCurrentConversation(id) ==
  /\ id = 0 \/ HasConversation(conversations, id)
  /\ currentConversationId' = id
  /\ UNCHANGED <<svc, conversations, models, presets, creating, nextId, calls, view,
                 selectedConversations>>

ToggleSelectAlwaysAdds(id) ==
  /\ HasConversation(conversations, id)
  /\ Len(selectedConversations) <= MaxConvs
  /\ selectedConversations' = Append(selectedConversations, id)
  /\ UNCHANGED <<svc, conversations, currentConversationId, models, presets, creating, nextId,
                 calls, view>>

\* store.toggleSelectConversation(id), id of a conversation card
ToggleSelectConversation(id) ==
  /\ HasConversation(conversations, id)
  /\ selectedConversations' =
       IF \E i \in 1..Len(selectedConversations) : selectedConversations[i] = id
       THEN SelectSeq(selectedConversations, LAMBDA convId : convId # id)
       ELSE Append(selectedConversations, id)
  /\ UNCHANGED <<svc, conversations, currentConversationId, models, presets, creating, nextId,
                 calls, view>>

\* store.selectAllConversations()
SelectAllConversations ==
  /\ selectedConversations' = [i \in 1..Len(conversations) |-> conversations[i].id]
  /\ UNCHANGED <<svc, conversations, currentConversationId, models, presets, creating, nextId,
                 calls, view>>

\* store.clearSelectedConversations()
ClearSelectedConversations ==
  /\ selectedConversations' = <<>>
  /\ UNCHANGED <<svc, conversations, currentConversationId, models, presets, creating, nextId,
                 calls, view>>

DeletePresetOnly(id) ==
  /\ HasPreset(id)
  /\ presets' = SelectSeq(presets, LAMBDA preset : preset.id # id)
  /\ UNCHANGED <<svc, conversations, currentConversationId, models, creating, nextId, calls,
                 view, selectedConversations>>

\* store.deletePreset(id)
DeletePreset(id) ==
  /\ HasPreset(id)
  /\ presets' = SelectSeq(presets, LAMBDA preset : preset.id # id)
  /\ conversations' = [i \in 1..Len(conversations) |->
                         IF conversations[i].presetId = id
                         THEN [conversations[i] EXCEPT !.presetId = 0]
                         ELSE conversations[i]]
  /\ UNCHANGED <<svc, currentConversationId, models, creating, nextId, calls, view,
                 selectedConversations>>

\* the ids in selectedConversations
SelectedIds == {selectedConversations[i] : i \in 1..Len(selectedConversations)}

NextStore ==
  \/ \E presetId \in 0..2 : CreateConversation(1, presetId)
  \/ \E id \in 1..MaxIds : StoreAddMessage(id)
  \/ \E id \in 0..MaxIds : SetCurrentConversation(id)
  \/ \E id \in 1..MaxIds : ToggleSelectConversation(id)
  \/ SelectAllConversations
  \/ ClearSelectedConversations
  \/ \E id \in 1..MaxIds : DeleteConversation(id)
  \/ \E ids \in {SelectedIds, {1}, {1, 2}} : DeleteMultipleConversations(ids)
  \/ \E id \in 1..2 : DeletePreset(id)

SpecStore == InitStore /\ [][NextStore]_vars

(***************************************************************************)
(* The response body of a streaming request cut into chunks by the reader. *)
(* The body is a sequence of atoms: "data: ", the pieces of the JSON       *)
(* payload ("{", the text delta, "}"), "[DONE]" and the line feed; a chunk *)
(* ends after any atom.  svc holds the body, what is left to read, and     *)
(* whether some chunk ended inside a line.                                 *)
(***************************************************************************)
MaxDeltas == 2

NL == "\n"

\* the bodies a provider sends: MaxDeltas or fewer delta events, then the closing event
SseBodies(type) ==
  LET Event(t) == <<"data: ", "{", t, "}", NL, NL>>
      Closing == IF type = "claude" THEN Event("message_stop")
                 ELSE <<"data: ", "[DONE]", NL, NL>>
      DeltaTexts == <<"a", "b", "c">>
      Deltas(n) == IF n = 1 THEN Event(DeltaTexts[1])
                   ELSE IF n = 2 THEN Event(DeltaTexts[1]) \o Event(DeltaTexts[2])
                   ELSE Event(DeltaTexts[1]) \o Event(DeltaTexts[2]) \o Event(DeltaTexts[3])
  IN {Deltas(n) \o Closing : n \in 1..MaxDeltas}

\* chunk.split("\n")
RECURSIVE SplitLines(_, _)
SplitLines(atoms, line) ==
  IF atoms = <<>> THEN <<line>>
  ELSE IF Head(atoms) = NL THEN <<line>> \o SplitLines(Tail(atoms), <<>>)
  ELSE SplitLines(Tail(atoms), Append(line, Head(atoms)))

\* What the loop body sees in one line: the filter drops an empty line and
\* "data: [DONE]"; a line that does not start with "data: " is skipped; JSON.parse of
\* anything but a whole payload throws and the catch swallows it.
ParseLine(l) ==
  IF l = <<>> THEN Line("bad")
  ELSE IF l = <<"data: ", "[DONE]">> THEN Line("done")
  ELSE IF Head(l) # "data: " THEN Line("bad")
  ELSE IF Len(l) = 4 /\ l[2] = "{" /\ l[4] = "}"
    THEN (IF l[3] = "message_stop" THEN Line("stop") ELSE Delta(<<l[3]>>))
    ELSE Line("bad")

ParseChunk(chunk) ==
  LET lines == SplitLines(chunk, <<>>)
  IN [i \in 1..Len(lines) |-> ParseLine(lines[i])]

InitSplit ==
  /\ \E t \in {"openai", "deepseek", "claude"} : \E b \in SseBodies(t) :
       svc = [type |-> t, method |-> "sendMessageStream", body |-> b, rest |-> b,
              cut |-> FALSE, st |-> [NewStream(FALSE) EXCEPT !.pc = "reading"]]
  /\ AppQuiet

\* reader.read() returns the next n atoms of the body
SvcReadSplit ==
  /\ svc.st.pc = "reading" /\ svc.rest # <<>>
  /\ \E n \in 1..Len(svc.rest) :
       svc' = [svc EXCEPT !.st = ReadChunk(svc.type, svc.st, ParseChunk(SubSeq(svc.rest, 1, n))),
                          !.rest = SubSeq(@, n + 1, Len(@)),
                          !.cut = @ \/ (n < Len(svc.rest) /\ svc.rest[n] # NL)]
  /\ UNCHANGED appVars

\* reader.read() returns done after the whole body
SvcReadDoneSplit ==
  /\ svc.st.pc = "reading" /\ svc.rest = <<>>
  /\ svc' = [svc EXCEPT !.st = ReadDone(svc.type, svc.st)]
  /\ UNCHANGED appVars

NextSplit == SvcReadSplit \/ SvcReadDoneSplit

SpecSplit == InitSplit /\ [][NextSplit]_vars

(***************************************************************************)
(* Further claims about the adapters' request construction (SpecAdapter).  *)
(***************************************************************************)
\* the greatest index whose message has the role (case ignored), 0 when there is none
LastIndexOfRole(messages, role) ==
  LET idx == {i \in 1..Len(messages) : toLowerCase(messages[i].role) = role}
  IN IF idx = {} THEN 0 ELSE CHOOSE i \in idx : \A j \in idx : j <= i

\* C11: for an input of at most two messages processGeminiMessages returns exactly
\* one turn with role user whose content is that of the last user message if there
\* is one, else of the last system message, else of the last message; the result is
\* empty only when the input is empty.
C11_GeminiSingleTurn ==
  (svc.st.reqs > 0 /\ svc.type = "gemini" /\ Len(svc.messages) <= 2) =>
    LET src == svc.messages
        out == svc.st.wire
        u == LastIndexOfRole(src, "user")
        s == LastIndexOfRole(src, "system")
        pick == IF u > 0 THEN u ELSE IF s > 0 THEN s ELSE Len(src)
    IN /\ (out = <<>>) <=> (src = <<>>)
       /\ src # <<>> =>
            /\ Len(out) = 1
            /\ out[1].role = "user"
            /\ out[1].content = src[pick].content

C11_Witness ==
  /\ svc.st.reqs > 0 /\ svc.type = "gemini" /\ Len(svc.messages) = 2
  /\ toLowerCase(svc.messages[1].role) = "user" /\ toLowerCase(svc.messages[2].role) = "user"
  /\ svc.st.wire = <<[role |-> "user", content |-> svc.messages[2].content]>>

\* the turns of a Gemini request that carry a message of the conversation: not a
\* filler, not the merged system instruction
CarriedTurns(out) ==
  SelectSeq(out, LAMBDA t : /\ t.content # FillerContinue
                            /\ t.content # FillerAnswer
                            /\ ~IsPrefix(SystemInstructionTag, t.content))

\* C24: for more than two messages processGeminiMessages returns turns of roles user
\* and model only, no two adjacent turns of the same role; every inserted turn is a
\* filler of the role opposite to its predecessor's, and without the fillers and the
\* system instruction the turns are the non-system messages in order, assistant as
\* model and every other role as user.
C24_GeminiAlternates ==
  (svc.st.reqs > 0 /\ svc.type = "gemini" /\ Len(svc.messages) > 2) =>
    LET out == svc.st.wire
        rest == SelectSeq(svc.messages, LAMBDA m : toLowerCase(m.role) # "system")
        carried == CarriedTurns(out)
    IN /\ \A i \in 1..Len(out) : out[i].role \in {"user", "model"}
       /\ \A i \in 1..(Len(out) - 1) : out[i].role # out[i + 1].role
       /\ Len(carried) = Len(rest)
       /\ \A i \in 1..Len(rest) :
            /\ carried[i].content = rest[i].content
            /\ carried[i].role = IF toLowerCase(rest[i].role) = "assistant" THEN "model"
                                 ELSE "user"

C24_Witness ==
  /\ svc.st.reqs > 0 /\ svc.type = "gemini" /\ Len(svc.messages) = 3
  /\ toLowerCase(svc.messages[1].role) = "system"
  /\ svc.messages[2].role = "user" /\ svc.messages[3].role = "user"
  /\ Len(svc.st.wire) = 5
  /\ svc.st.wire[2] = [role |-> "model", content |-> FillerContinue]
  /\ svc.st.wire[4] = [role |-> "model", content |-> FillerContinue]

\* the text of the vendor's error payload: data.error (a string, or the message of
\* an object) before data.message, empty when the response carries neither
VendorText(e) == IF e.dataErrorText # <<>> THEN e.dataErrorText ELSE e.dataMessage

\* the error string of a failed request, given the text for a status 401, 404 or 429
ErrorStringIs(friendly(_, _)) ==
  (svc.method = "sendMessage" /\ svc.st.pc = "settled" /\ svc.outcome.kind = "err") =>
    LET e == svc.outcome.error
        prefix == ProviderPrefix(svc.type)
    IN svc.result.error =
         IF VendorText(e) # <<>> THEN VendorText(e)
         ELSE IF e.status \in {401, 404, 429} THEN friendly(e, prefix)
         ELSE IF e.message # <<>> THEN e.message
         ELSE prefix \o <<" ">> \o UnknownError

\* C28 as stated: the vendor's payload text verbatim when there is one; otherwise for
\* status 401, 404 or 429 the provider prefix followed by the friendly text; otherwise
\* the error's own message, or the provider prefix and the unknown-error text.
C28_AsStated ==
  ErrorStringIs(LAMBDA e, prefix : prefix \o FriendlyText(e.status))

\* C28: the same, except that for status 401, 404 or 429 the friendly text is followed
\* by the error's own message in parentheses when the error has one.
C28_ErrorMessage ==
  ErrorStringIs(LAMBDA e, prefix :
    prefix \o FriendlyText(e.status)
      \o (IF e.message # <<>> THEN <<" (">> \o e.message \o <<")">> ELSE <<>>))

C28_Witness ==
  /\ svc.method = "sendMessage" /\ svc.st.pc = "settled" /\ svc.outcome.kind = "err"
  /\ svc.outcome.error.status = 429 /\ VendorText(svc.outcome.error) = <<>>
  /\ svc.outcome.error.message = AxiosMessage
  /\ svc.result.error =
       ProviderPrefix(svc.type) \o FriendlyText(429) \o <<" (">> \o AxiosMessage \o <<")">>

(***************************************************************************)
(* Further claims about the application driven from its pages (Spec).      *)
(***************************************************************************)
\* the conversation's messages, none when it is gone
MessagesOf(id) ==
  IF HasConversation(conversations, id) THEN FindConversation(conversations, id).messages
  ELSE <<>>

\* a user message that the input box of ChatView produced
IsTypedMessage(m) == m.role = "user" /\ \E t \in Typed : m.content = Trim(t)

\* a user message that is a prompt of the preset
IsPrimingMessage(m, preset) ==
  m.role = "user" /\ m.content \in {Trim(preset.armoringPrompt), Trim(preset.systemPrompt)}

\* C12: for a conversation created with a preset from the new-conversation page, no
\* free-form send (sendMessage or sendMessageStream) exists for that conversation
\* while initializeWithPreset has not finished, and in its message list no free-form
\* user message precedes a priming turn.
C12_NoSendBeforePrimed ==
  \A j \in 1..Len(calls) :
    (IsInit(calls[j]) /\ calls[j].fromSubmit) =>
      /\ \A k \in 1..Len(calls) :
           (IsFreeFormSend(calls[k]) /\ calls[k].conv = calls[j].conv) =>
             calls[j].result # "pending"
      /\ LET msgs == MessagesOf(calls[j].conv)
         IN \A a, b \in 1..Len(msgs) :
              (a < b /\ IsTypedMessage(msgs[a])) => ~IsPrimingMessage(msgs[b], calls[j].preset)

\* a send started from the ChatView that is still mounted has finished, and the view
\* has no other send under way
FinishedFromView(k) ==
  /\ IsFreeFormSend(calls[k]) /\ calls[k].attached /\ calls[k].pc = "settled"
  /\ \A j \in 1..Len(calls) :
       (IsFreeFormSend(calls[j]) /\ calls[j].attached) => calls[j].pc = "settled"

\* C15: once every send started from the chat view has finished, in streaming or
\* non-streaming mode, with success or failure, the sending flag is false again (no
\* later step of the code sets it), so the input box is enabled.
C15_SendingReset ==
  \A k \in 1..Len(calls) : FinishedFromView(k) => ~view.sending

\* the same for the sends in streaming mode
C15_Streaming ==
  (\A k \in 1..Len(calls) : calls[k].op # "sendMessage") =>
    \A k \in 1..Len(calls) : FinishedFromView(k) => ~view.sending

\* C16: whenever a streaming send reaches a content update, the last message of its
\* conversation at that moment is the assistant placeholder created for that send:
\* no other message was appended since the placeholder was created.
C16_PlaceholderIsLast ==
  \A k \in 1..Len(calls) :
    \A i \in 1..Len(calls[k].updLog) :
      LET u == calls[k].updLog[i]
      IN u.at.exists =>
           /\ u.at.last.id = calls[k].placeholder
           /\ u.at.last.role = "assistant"

\* the same for a send that is the only operation on its conversation
C16_OnlyOperation ==
  \A k \in 1..Len(calls) :
    (\A j \in 1..Len(calls) : j # k => calls[j].conv # calls[k].conv)
    => \A i \in 1..Len(calls[k].updLog) :
         calls[k].updLog[i].at.exists =>
           calls[k].updLog[i].at.last.id = calls[k].placeholder

\* C17: the message list ChatService.sendMessageStream sends to the provider ends
\* with the user's new message; the empty assistant placeholder is not part of it.
C17_RequestEndsWithUser ==
  \A k \in 1..Len(calls) :
    calls[k].op = "sendMessageStream" =>
      \A i \in 1..Len(calls[k].reqLog) :
        LET m == calls[k].reqLog[i].apiMessages
        IN /\ m # <<>>
           /\ Last(m).role = "user"
           /\ \E t \in Typed : Last(m).content = Trim(t)

\* the request carries the messages, role and content of each, in order
CarriesAll(apiMessages, messages) ==
  /\ Len(apiMessages) = Len(messages)
  /\ \A i \in 1..Len(messages) :
       /\ apiMessages[i].role = messages[i].role
       /\ apiMessages[i].content = messages[i].content

\* the messages of conversation id in convs, none when it is not there
MessagesIn(convs, id) ==
  IF HasConversation(convs, id) THEN FindConversation(convs, id).messages ELSE <<>>

\* new is old and one more message
AppendsOne(old, new) ==
  /\ Len(new) = Len(old) + 1
  /\ \A i \in 1..Len(old) : new[i] = old[i]

\* the step in which call k of sendMessage posts its request: one user message is
\* appended, and the request carries the whole conversation, that message last
SendPosts(k) ==
  (k > Len(calls) /\ calls'[k].op = "sendMessage" /\ calls'[k].pc = "posted") =>
    LET old == MessagesIn(conversations, calls'[k].conv)
        new == MessagesIn(conversations', calls'[k].conv)
    IN /\ AppendsOne(old, new)
       /\ IsTypedMessage(Last(new))
       /\ Len(calls'[k].reqLog) = 1
       /\ CarriesAll(calls'[k].reqLog[1].apiMessages, new)

\* the step in which the request of call k of sendMessage settles without an error:
\* one assistant message with the reply is appended and the call resolves
SendSucceeds(k) ==
  (/\ k <= Len(calls) /\ calls[k].op = "sendMessage" /\ calls[k].pc = "posted"
   /\ calls'[k].pc = "settled" /\ calls'[k].failures = <<>>) =>
    LET old == MessagesIn(conversations, calls[k].conv)
        new == MessagesIn(conversations', calls[k].conv)
    IN /\ AppendsOne(old, new)
       /\ Last(new).role = "assistant"
       /\ ~IsPrefix(ErrPrefix, Last(new).content)
       /\ calls'[k].result = "resolved"
       /\ Len(calls'[k].reqLog) = 1 /\ Len(calls'[k].userLog) = 1

\* C18: a successful non-streaming sendMessage on a conversation with a configured
\* model appends exactly two messages, the user's text when it posts its request and
\* the assistant's reply when the request settles, and its one request carries the
\* whole conversation history in order, ending with the new user message.
C18_SendAppendsTwo ==
  [][\A k \in 1..Len(calls') : SendPosts(k) /\ SendSucceeds(k)]_vars

C18_Witness ==
  \E k \in 1..Len(calls) :
    /\ calls[k].op = "sendMessage" /\ calls[k].result = "resolved" /\ calls[k].failures = <<>>
    /\ Len(calls[k].reqLog) = 1
    /\ LET m == calls[k].reqLog[1].apiMessages
       IN /\ Len(m) >= 3
          /\ \E i \in 1..Len(m) : m[i].role = "assistant" /\ IsPrefix(ErrPrefix, m[i].content)
          /\ Len(MessagesOf(calls[k].conv)) = Len(m) + 1
          /\ Last(MessagesOf(calls[k].conv)).content = ReplyText

(***************************************************************************)
(* Further claims about the streamed response of an adapter (SpecStream).  *)
(***************************************************************************)
\* the positions of the onStream calls with isComplete = true
CompleteCalls(log) == {i \in 1..Len(log) : log[i].isComplete}

\* C13: in every call of an adapter's sendMessageStream with a handler that returns
\* normally, no onStream call follows one with isComplete = true, and once the call
\* has settled, resolved or rejected, onStream was invoked with isComplete = true
\* exactly once.
C13_CompleteExactlyOnce ==
  (svc.method = "sendMessageStream" /\ ~svc.st.th) =>
    /\ \A i \in CompleteCalls(svc.st.log) : i = Len(svc.st.log)
    /\ svc.st.pc = "settled" => Cardinality(CompleteCalls(svc.st.log)) = 1

\* the same for the calls that resolve, Claude apart
C13_ResolvedNotClaude ==
  (svc.method = "sendMessageStream" /\ ~svc.st.th /\ svc.type # "claude"
     /\ svc.st.pc = "settled" /\ svc.st.settled = "resolved") =>
    CompleteCalls(svc.st.log) = {Len(svc.st.log)}

(***************************************************************************)
(* The response body cut into chunks (SpecSplit).                          *)
(***************************************************************************)
\* the text deltas of the event lines of a body, concatenated in order
RECURSIVE DeltaText(_)
DeltaText(lines) ==
  IF lines = <<>> THEN <<>>
  ELSE (IF Head(lines).k = "delta" THEN Head(lines).t ELSE <<>>) \o DeltaText(Tail(lines))

\* C14: for OpenAI, DeepSeek and Claude the text of the final onStream call equals
\* the concatenation, in order, of the text deltas of all event lines the provider
\* sent, however the reader cut the body into chunks.
C14_AnyChunking ==
  svc.st.pc = "settled" =>
    /\ svc.st.log # <<>>
    /\ Last(svc.st.log).isComplete
    /\ Last(svc.st.log).text = DeltaText(ParseChunk(svc.body))

\* the same when every chunk ends at the end of a line
C14_WholeLines ==
  (svc.st.pc = "settled" /\ ~svc.cut) =>
    /\ svc.st.log # <<>>
    /\ Last(svc.st.log).isComplete
    /\ Last(svc.st.log).text = DeltaText(ParseChunk(svc.body))

(***************************************************************************)
(* Further claims about initializeWithPreset (SpecPreset).                 *)
(***************************************************************************)
\* C19: initializeWithPreset never rejects; with a non-null preset the store's
\* creating flag is true from its first priming message on until it settles, and
\* false once its promise has settled, on every path; with a null preset it returns
\* and the store is as it was: no message, no id used, creating false.
C19_CreatingFlag ==
  \A k \in 1..Len(calls) :
    IsInit(calls[k]) =>
      /\ calls[k].result # "rejected"
      /\ ~calls[k].preset.isNull =>
           /\ (calls[k].pc # "settled" /\ calls[k].userLog # <<>>) => creating
           /\ calls[k].pc = "settled" => ~creating
      /\ calls[k].preset.isNull =>
           /\ ~creating /\ nextId = 2
           /\ \A i \in 1..Len(conversations) : conversations[i].messages = <<>>

\* initializeWithPreset has settled after a provider error, and after the
\* conversation was deleted under it
C19_Witness ==
  \E k \in 1..Len(calls) :
    /\ IsInit(calls[k]) /\ ~calls[k].preset.isNull
    /\ calls[k].pc = "settled" /\ calls[k].result = "resolved"
    /\ calls[k].failures # <<>>
    /\ ~HasConversation(conversations, calls[k].conv)
    /\ ~creating

\* the first prompt of the preset that is not blank
FirstPrompt(preset) ==
  IF Trim(preset.armoringPrompt) # <<>> THEN preset.armoringPrompt ELSE preset.systemPrompt

\* C20: with a model whose API key is empty or blank and a preset with at least one
\* non-blank prompt, initializeWithPreset settles at once without a provider request,
\* and the conversation holds exactly two messages: the first non-blank prompt as a
\* user message, then the assistant message that the key is missing.
C20_MissingKey ==
  \A k \in 1..Len(calls) :
    (/\ IsInit(calls[k]) /\ ~calls[k].preset.isNull /\ calls[k].pc # "start"
     /\ Trim(calls[k].model.apiKey) = <<>>
     /\ NonBlankPrompts(calls[k]) >= 1) =>
      /\ calls[k].pc = "settled" /\ calls[k].result = "resolved"
      /\ calls[k].reqLog = <<>>
      /\ HasConversation(conversations, calls[k].conv) =>
           LET msgs == FindConversation(conversations, calls[k].conv).messages
           IN /\ Len(msgs) = 2
              /\ msgs[1].role = "user"
              /\ msgs[1].content = FirstPrompt(calls[k].preset)
              /\ msgs[2].role = "assistant"
              /\ msgs[2].content = ErrPrefix \o KeyMissing

C20_Witness ==
  \E k \in 1..Len(calls) :
    /\ IsInit(calls[k]) /\ calls[k].pc = "settled"
    /\ calls[k].model.apiKey = <<WS>>
    /\ NonBlankPrompts(calls[k]) = 2
    /\ HasConversation(conversations, calls[k].conv)
    /\ Len(FindConversation(conversations, calls[k].conv).messages) = 2
    /\ calls[k].reqLog = <<>>

(***************************************************************************)
(* Further claims about the free-form sends (Spec).                        *)
(***************************************************************************)
\* the assistant message of a send whose model has no key
IsKeyMissingMessage(m) == m.role = "assistant" /\ m.content = ErrPrefix \o KeyMissingLong

\* C21: when the conversation's model has an empty or blank API key, sendMessage and
\* sendMessageStream resolve at once without a provider request and without a user
\* message, each appends exactly one assistant message with the missing-key text, and
\* the streaming one calls onStreamUpdate exactly once, with that text and
\* isComplete = true.
C21_MissingKeySend ==
  (\A i \in 1..Len(models) : Trim(models[i].apiKey) = <<>>) =>
    /\ \A k \in 1..Len(calls) :
         IsFreeFormSend(calls[k]) =>
           /\ calls[k].pc = "settled" /\ calls[k].result = "resolved"
           /\ calls[k].reqLog = <<>> /\ calls[k].userLog = <<>>
           /\ calls[k].uiLog = IF calls[k].op = "sendMessageStream"
                               THEN <<OnStreamCall(ErrPrefix \o KeyMissingLong, TRUE)>>
                               ELSE <<>>
    /\ \A i \in 1..Len(conversations) :
         LET msgs == conversations[i].messages
             sends == {k \in 1..Len(calls) : calls[k].conv = conversations[i].id}
         IN /\ Len(msgs) = Cardinality(sends)
            /\ \A j \in 1..Len(msgs) : IsKeyMissingMessage(msgs[j])

C21_Witness ==
  /\ \A i \in 1..Len(models) : models[i].apiKey = <<>>
  /\ \E k \in 1..Len(calls) : calls[k].op = "sendMessage" /\ calls[k].pc = "settled"
  /\ \E k \in 1..Len(calls) : calls[k].op = "sendMessageStream" /\ calls[k].pc = "settled"
  /\ Len(MessagesOf(1)) = 2

\* C23: at every point during and after sendMessageStream the stored content of the
\* assistant message created for that send equals the text most recently passed to
\* onStreamUpdate, the empty string before the first callback.
C23_StoreMatchesView ==
  \A k \in 1..Len(calls) :
    (calls[k].op = "sendMessageStream" /\ calls[k].placeholder # 0) =>
      LET msgs == MessagesOf(calls[k].conv)
      IN \A i \in 1..Len(msgs) :
           msgs[i].id = calls[k].placeholder =>
             msgs[i].content = IF calls[k].uiLog = <<>> THEN <<>>
                               ELSE Last(calls[k].uiLog).text

(***************************************************************************)
(* Claims about the sends called for any conversation, and about deleting  *)
(* from the store (SpecService).                                           *)
(***************************************************************************)
\* the conversation of id is not in the store, or its modelId matches no model
NoConversationOrModel(id) ==
  \/ ~HasConversation(conversations, id)
  \/ ~HasModel(models, FindConversation(conversations, id).modelId)

\* C22: a sendMessage or sendMessageStream called for a conversation id that is not
\* in the store, or for a conversation whose modelId matches no model, rejects,
\* issues no request, calls no UI callback and leaves the store unchanged.
C22_RejectsUnknown ==
  [][\A k \in 1..Len(calls') :
       (k > Len(calls) /\ IsFreeFormSend(calls'[k]) /\ NoConversationOrModel(calls'[k].conv)) =>
         /\ calls'[k].pc = "settled" /\ calls'[k].result = "rejected"
         /\ calls'[k].reqLog = <<>> /\ calls'[k].uiLog = <<>> /\ calls'[k].userLog = <<>>
         /\ conversations' = conversations
         /\ nextId' = nextId
         /\ models' = models
         /\ currentConversationId' = currentConversationId]_vars

C22_Witness ==
  /\ \E k \in 1..Len(calls) :
       /\ calls[k].op = "sendMessageStream" /\ calls[k].result = "rejected"
       /\ calls[k].reqLog = <<>>
       /\ HasConversation(conversations, calls[k].conv) /\ models = <<>>
  /\ \E k \in 1..Len(calls) :
       /\ calls[k].op = "sendMessage" /\ calls[k].result = "rejected"
       /\ ~HasConversation(conversations, calls[k].conv)
  /\ \A i \in 1..Len(conversations) : conversations[i].messages = <<>>

\* call k is called or goes on in this step
StepOf(k) ==
  \/ k > Len(calls)
  \/ calls'[k].pc # calls[k].pc
  \/ calls'[k].st # calls[k].st
  \/ calls'[k].uiLog # calls[k].uiLog

\* C25: a step of a send, also one whose conversation was deleted while its request
\* was in flight, creates and removes no conversation and changes no conversation
\* but its own, to which it only appends: for a deleted conversation the late reply
\* or stream update leaves the conversation list as it is.
C25_LateReply ==
  [][\A k \in 1..Len(calls') :
       StepOf(k) =>
         /\ Len(conversations') = Len(conversations)
         /\ \A i \in 1..Len(conversations) :
              /\ conversations'[i].id = conversations[i].id
              /\ conversations'[i].modelId = conversations[i].modelId
              /\ conversations'[i].presetId = conversations[i].presetId
              /\ conversations[i].id # calls'[k].conv =>
                   conversations'[i].messages = conversations[i].messages
              /\ ExtendsMessages(conversations[i].messages, conversations'[i].messages, FALSE)]_vars

\* a reply and a stream update arrived for a conversation deleted meanwhile
C25_Witness ==
  /\ \E k \in 1..Len(calls) :
       /\ calls[k].op = "sendMessage" /\ calls[k].result = "resolved"
       /\ Len(calls[k].reqLog) = 1 /\ ~HasConversation(conversations, calls[k].conv)
  /\ \E k \in 1..Len(calls) :
       /\ calls[k].op = "sendMessageStream" /\ calls[k].pc = "settled"
       /\ calls[k].updLog # <<>> /\ ~Last(calls[k].updLog).at.exists
  /\ Len(conversations) = 1 /\ conversations[1].messages = <<>>

(***************************************************************************)
(* Claims about the store's operations (SpecStore).                        *)
(***************************************************************************)
\* C26: after any sequence of the store's operations as the pages issue them,
\* currentConversationId is null or the id of an existing conversation, and
\* selectedConversations holds only ids of existing conversations, each at most once.
C26_IdsExist ==
  /\ currentConversationId = 0 \/ HasConversation(conversations, currentConversationId)
  /\ \A i \in 1..Len(selectedConversations) :
       /\ HasConversation(conversations, selectedConversations[i])
       /\ \A j \in 1..Len(selectedConversations) :
            selectedConversations[i] = selectedConversations[j] => i = j

\* two conversations were selected, one of them was deleted, the other is current
C26_Witness ==
  /\ Len(conversations) = 1
  /\ selectedConversations = <<conversations[1].id>>
  /\ currentConversationId = conversations[1].id
  /\ nextId > 2

\* C27: deletePreset(id) sets the presetId of every conversation that referenced the
\* preset to null and changes nothing else of any conversation; and every
\* conversation's presetId is always null or the id of an existing preset.
C27_PresetIds ==
  /\ [](\A i \in 1..Len(conversations) :
          conversations[i].presetId = 0 \/ HasPreset(conversations[i].presetId))
  /\ [][presets' # presets =>
          /\ Len(conversations') = Len(conversations)
          /\ \A i \in 1..Len(conversations) :
               conversations'[i] =
                 IF \E p \in 1..Len(presets') : presets'[p].id = conversations[i].presetId
                 THEN conversations[i]
                 ELSE [conversations[i] EXCEPT !.presetId = 0]]_vars

\* a preset was deleted under a conversation that has a message
C27_Witness ==
  /\ Len(presets) = 1
  /\ Len(conversations) = 2
  /\ \E i \in 1..2 : conversations[i].presetId = 0 /\ conversations[i].messages # <<>>
  /\ \E i \in 1..2 : conversations[i].presetId = presets[1].id

====
